---------------------------- MODULE Spec2Model ----------------------------
(***************************************************************************)
(* Asynchronous actuator-motion control of the odemis hardware drivers:    *)
(* the Phenom stage, focus and chamber-pressure actuators                  *)
(* (src/src/odemis/driver/phenom.py) and the XT stage and focus actuators  *)
(* (src/src/odemis/driver/xt_client.py).                                   *)
(*                                                                         *)
(* One controller is modelled at a time: ctl names the variant, chosen in  *)
(* Init.  Each controller owns a single-worker executor (futures, workq,   *)
(* wtask, wpc), a cached position VA (position) and a device (devPos).     *)
(* Caller threads run moveAbs / moveRel / stop; the worker runs the        *)
(* submitted function one step per action.                                 *)
(***************************************************************************)
EXTENDS Integers, Sequences, FiniteSets, TLC

\* ------------------------------------------------------------------ bounds
MaxCalls == 2        \* moveAbs / moveRel calls in a run
MaxStops == 1        \* stop() calls in a run
RngSpan  == 2        \* axis range is [0, RngSpan]
MaxDelta == 2        \* largest relative request a caller makes
MaxTerms == 2        \* terminate() calls in a run
MaxActs  == 4        \* actuators of a microscope
MaxMotionStops == 3  \* stopMotion() calls in a run
MaxSteps  == 2       \* step() calls in a run
MaxFactor == 11      \* |factor| of a step() call
MaxThreads == 2      \* SEM acquisition threads started in a run
MaxSets   == 2       \* changes of Scanner.translation / pixelSize in a run

\* ------------------------------------------------------------------ state
VARIABLES
  ctl,               \* controller variant under test
  futures,           \* futures returned by the executor, by task id
  workq,             \* executor work queue: the work items not yet started
  wtask,             \* id of the future the worker is running, 0 when idle
  wpc,               \* worker's position in the submitted function
  wfn,               \* function and argument of the running work item
  wpos,              \* worker local: pos of _moveTo / _doMoveRel
  wexc,              \* worker local: how the submitted function is ending
  whist,             \* history of the running task
  done,              \* history: the task resolved last
  position,          \* the .position VA (cache)
  _position,         \* Phenom Stage._position
  devPos,            \* position held by the device
  devMoving,         \* what the device answers to stage_is_moving
  devTarget,         \* target of the device's current move
  inflight,          \* threads that are inside a call of the device handle
  _moves_queue,      \* PhenomFocus._moves_queue
  wd,                \* local of PhenomFocus._checkQueue
  batch,             \* history: moves popped by the running _checkQueue
  acq_progress_lock, \* parent._acq_progress_lock: its holder, or "free"
  timer,             \* ChamberPressure TimeUpdater: "off", "on"
  writes,            \* history: working-distance writes received by the device
  reqs,              \* history: focus moves accepted by moveRel / moveAbs, in order
  nAtStart,          \* history: futures submitted when the worker first started
  log,               \* history: move commands sent and tasks resolved by the worker
  stopPc,            \* position of the thread inside stop()
  stopFut,           \* running future the last stop() found
  nStops,            \* stop() calls so far
  nAbort,            \* stop_stage_movement calls since the last stop() began
  lastStop,          \* how the last stop() ended
  nCalls,            \* moveAbs / moveRel calls so far
  lastCall,          \* last moveAbs / moveRel call: its argument's class, how it returned
  _executor,         \* self._executor: "live", "shutdown" (shutdown() began), "None"
  termPc,            \* position of the thread inside terminate()
  nTerm,             \* terminate() calls that have returned or raised
  lastTerm,          \* how the last terminate() ended
  acquire_must_stop, \* NavCam.acquire_must_stop: is the event set
  acquire_thread,    \* NavCam acquisition thread: "None", "loop", "frame", "notify", "dead"
  eta,               \* history: how the last _updateTime ended: "none", "set", "fault"
  microscope,        \* MainGUIData.microscope: absent (None), or its number of actuators
  smPc,              \* stopMotion: index of the actuator to stop next, 0 outside the loop
  smCalls,           \* stopMotion calls so far
  smReturned,        \* how the last stopMotion ended: "none", "returned", "raised"
  stopCalls,         \* stop() calls each actuator received from the last stopMotion
  actRaised,         \* whether that stop() call raised
  stepsizes,         \* ActuatorGUIData.stepsizes[ssn].value, in StepUnits
  steps,             \* history: one record per step() call
  acqThreads,        \* Detector: the acquisition threads started so far
  _acquisition_must_stop,  \* Detector._acquisition_must_stop (Event)
  startPc,           \* position of the caller inside Detector.start_acquire
  generating,        \* SEMDataFlow: start_generate was called last
  translation,       \* Scanner.translation.value (one axis), in pixels
  pixelSize,         \* Scanner.pixelSize.value (one axis)
  nSets,             \* changes of translation / pixelSize so far
  lk,                \* where each Phenom thread is with respect to _acq_progress_lock
  semTask            \* the stage move the SEM thread waits for: "none", "queued",
                     \* "running", "done"

execv == <<futures, workq, wtask, wpc, wfn>>
wlocv == <<wpos, wexc, whist, done, nAtStart, log>>
cachv == <<position, _position>>
devv  == <<devPos, devMoving, devTarget, inflight>>
pfv   == <<_moves_queue, wd, batch, writes, reqs>>
stopv == <<stopPc, stopFut, nStops, nAbort, lastStop>>
termv == <<_executor, termPc, nTerm, lastTerm>>
ncv   == <<acquire_must_stop, acquire_thread>>
agv   == <<stepsizes, steps>>
guiv  == <<microscope, smPc, smCalls, smReturned, stopCalls, actRaised, agv>>
detv  == <<acqThreads, _acquisition_must_stop, startPc, generating, translation,
           pixelSize, nSets>>
lkv   == <<lk, semTask>>
ctlv  == <<ctl, termv, ncv, eta, guiv, detv, lkv>>
miscv == <<ctlv, acq_progress_lock, timer>>
callv == <<nCalls, lastCall>>

vars == <<execv, wlocv, cachv, devv, pfv, stopv, miscv, callv>>

\* ------------------------------------------------------------------ values
rng == <<0, RngSpan>>                       \* axis range (min, max)

InRange(v) == rng[1] <= v /\ v <= rng[2]

Clip(v, lo, hi) == IF v < lo THEN lo ELSE IF v > hi THEN hi ELSE v

Abs(v) == IF v < 0 THEN -v ELSE v

\* A request argument is a dict axis -> value; {} is the empty function.
Dict(axes, vals) == UNION {[S -> vals] : S \in SUBSET axes}

EmptyDict == [a \in {} |-> 0]

\* dict.get(key, default)
Get(d, a, default) == IF a \in DOMAIN d THEN d[a] ELSE default

\* What the callers ask for: values in range and out of range, and {}.
AbsVals == {rng[1] - 1, rng[1], rng[2], rng[2] + 1}

RelVals == {0 - 1, MaxDelta, RngSpan + 1}

\* ------------------------------------------------------------- model.Actuator
\* Actuator._checkMoveAbs: every named axis is known and its value in range.
checkMoveAbs(pos, axes) ==
  \A a \in DOMAIN pos : a \in axes /\ InRange(pos[a])

\* Actuator._checkMoveRel: every named axis is known and the shift is not
\* larger than the whole range (the only statically determinable case).
checkMoveRel(shift, axes) ==
  \A a \in DOMAIN shift : a \in axes /\ Abs(shift[a]) <= rng[2] - rng[1]

\* ------------------------------------------------------------------ executor
\* A future as submit() / submitf() returns it.  must_stop, was_stopped and
\* moving_lock are the attributes _createFuture attaches (xt_client.py).
NewFuture ==
  [state |-> "PENDING", result |-> "none",
   must_stop |-> FALSE, was_stopped |-> FALSE, moving_lock |-> "free"]

\* CancellableThreadPoolExecutor.submit / submitf: enqueue, never blocks.
submit(fn, arg) ==
  /\ futures' = Append(futures, NewFuture)
  /\ workq' = Append(workq, [fut |-> Len(futures) + 1, fn |-> fn, arg |-> arg])

\* self._executor.submit(...) as the caller sees it: a future, RuntimeError
\* once shutdown() began, AttributeError once self._executor is None.
SubmitOutcome ==
  IF _executor = "live" THEN "future"
  ELSE IF _executor = "shutdown" THEN "RuntimeError" ELSE "AttributeError"

trySubmit(fn, arg) ==
  IF _executor = "live" THEN submit(fn, arg) ELSE UNCHANGED <<futures, workq>>

\* The class of a request's argument: {} ("empty"), every value within the
\* range (moveAbs) or no larger than its span (moveRel) ("inrange"), or not.
AbsKind(pos) ==
  IF DOMAIN pos = {} THEN "empty"
  ELSE IF \A a \in DOMAIN pos : InRange(pos[a]) THEN "inrange" ELSE "outofrange"

RelKind(shift) ==
  IF DOMAIN shift = {} THEN "empty"
  ELSE IF \A a \in DOMAIN shift : Abs(shift[a]) <= RngSpan THEN "inrange" ELSE "outofrange"

\* What a moveAbs / moveRel call gave back to its caller: "future",
\* "instant" (model.InstantaneousFuture), or the exception it raised.
Returned(op, kind, outcome) ==
  /\ nCalls < MaxCalls
  /\ nCalls' = nCalls + 1
  /\ lastCall' = [op |-> op, kind |-> kind, outcome |-> outcome]

\* History of a task: moved, a move command was sent to the device;
\* readback, _updatePosition was called after the last move command;
\* timedOut, the move ran into the timeout; faulted, the move or mode-change
\* command raised; observed, the last answer of stage_is_moving ("moving",
\* "stopped") or "none".
NoHist ==
  [moved |-> FALSE, readback |-> FALSE, timedOut |-> FALSE, faulted |-> FALSE,
   observed |-> "none"]

NoFn == [fn |-> "none", arg |-> EmptyDict]

\* The worker takes the oldest work item and marks its future RUNNING.
WorkerTake(pc) ==
  /\ wtask = 0
  /\ workq # <<>>
  /\ wtask' = Head(workq).fut
  /\ wfn' = [fn |-> Head(workq).fn, arg |-> Head(workq).arg]
  /\ workq' = Tail(workq)
  /\ futures' = [futures EXCEPT ![Head(workq).fut].state = "RUNNING"]
  /\ whist' = NoHist
  /\ nAtStart' = IF nAtStart = 0 THEN Len(futures) ELSE nAtStart
  /\ wpc' = pc

\* How a task resolved: its outcome and its history.
Outcome(id, result, hist) ==
  [fut |-> id, result |-> result, moved |-> hist.moved, readback |-> hist.readback,
   timedOut |-> hist.timedOut, faulted |-> hist.faulted, observed |-> hist.observed,
   must_stop |-> futures[id].must_stop]

\* The submitted function returned ("ok") or raised; a future that was
\* cancelled meanwhile keeps its state (set_result / set_exception ignored).
WorkerDoneL(fs, result, hist, lg) ==
  /\ IF fs[wtask].state = "CANCELLED"
       THEN futures' = fs /\ log' = lg /\ UNCHANGED done
       ELSE /\ futures' = [fs EXCEPT ![wtask].state = "FINISHED", ![wtask].result = result]
            /\ done' = Outcome(wtask, result, hist)
            /\ log' = Append(lg, <<"res", wtask>>)
  /\ wtask' = 0
  /\ wfn' = NoFn
  /\ whist' = NoHist
  /\ wpc' = "idle"

WorkerDone(fs, result, hist) == WorkerDoneL(fs, result, hist, log)

\* The worker sends a move command for the task it runs.
Cmd == Append(log, <<"cmd", wtask>>)

\* CancellableThreadPoolExecutor.cancel, first half: every future not yet
\* started is cancelled and never run.
CancelPending ==
  [i \in 1 .. Len(futures) |->
     IF futures[i].state = "PENDING"
       THEN [futures[i] EXCEPT !.state = "CANCELLED", !.result = "cancelled"]
       ELSE futures[i]]

Running == wtask # 0 /\ futures[wtask].state = "RUNNING"

StopBegins ==
  /\ stopPc = "idle"
  /\ nStops < MaxStops
  /\ nStops' = nStops + 1
  /\ nAbort' = 0
  /\ workq' = <<>>
  /\ stopFut' = IF Running THEN wtask ELSE 0

\* How a stop() ended: raised, an exception left it; refreshed, it called
\* _updatePosition.
StopEnded(raised, refreshed) ==
  /\ stopPc' = "idle"
  /\ lastStop' = [raised |-> raised, refreshed |-> refreshed]

\* ------------------------------------------------- stop() of the Phenom actuators
\* Stage.stop / PhenomFocus.stop / ChamberPressure.stop: executor.cancel() only.
\* The futures have no task_canceller, so a running one is waited for.
Phenom == ctl \in {"PhenomStage", "PhenomFocus", "ChamberPressure"}

PH_stop ==
  /\ Phenom
  /\ _executor # "None"
  /\ termPc = "idle"
  /\ StopBegins
  /\ futures' = CancelPending
  /\ IF Running
       THEN stopPc' = "wait" /\ UNCHANGED lastStop
       ELSE StopEnded(FALSE, FALSE)
  /\ UNCHANGED <<wtask, wpc, wfn, wlocv, cachv, devv, pfv, miscv, callv>>

\* executor.cancel(), second half: f.result() of the future that was running.
PH_stopWait ==
  /\ Phenom
  /\ stopPc = "wait"
  /\ futures[stopFut].state = "FINISHED"
  /\ StopEnded(FALSE, FALSE)
  /\ UNCHANGED <<execv, wlocv, cachv, devv, pfv, stopFut, nStops, nAbort, miscv, callv>>

\* ------------------------------------------- terminate() of the Phenom actuators
\* How a terminate() ended: raised, an exception left it; devcall, its
\* thread called the device.
TermEnded(raised, devcall) ==
  /\ nTerm' = nTerm + 1
  /\ lastTerm' = [raised |-> raised, devcall |-> devcall]

\* Stage.terminate / PhenomFocus.terminate / ChamberPressure.terminate with
\* self._executor set: self.stop().
PH_terminate ==
  /\ Phenom
  /\ nTerm < MaxTerms
  /\ termPc = "idle"
  /\ _executor = "live"
  /\ StopBegins
  /\ futures' = CancelPending
  /\ IF Running
       THEN stopPc' = "wait" /\ UNCHANGED lastStop
       ELSE StopEnded(FALSE, FALSE)
  /\ termPc' = "stop"
  /\ UNCHANGED <<wtask, wpc, wfn, wlocv, cachv, devv, pfv, callv>>
  /\ UNCHANGED <<ctl, eta, guiv, detv, lkv, _executor, nTerm, lastTerm, ncv, acq_progress_lock, timer>>

\* terminate, self._executor.shutdown(): no submission is accepted any more.
PH_termShutdown ==
  /\ Phenom
  /\ termPc = "stop"
  /\ stopPc = "idle"
  /\ _executor' = "shutdown"
  /\ termPc' = "join"
  /\ UNCHANGED <<execv, wlocv, cachv, devv, pfv, stopv, callv>>
  /\ UNCHANGED <<ctl, eta, guiv, detv, lkv, nTerm, lastTerm, ncv, acq_progress_lock, timer>>

\* shutdown() returns when the worker has run what was submitted; then
\* self._executor = None.
PH_termJoin ==
  /\ Phenom
  /\ termPc = "join"
  /\ wtask = 0
  /\ workq = <<>>
  /\ _executor' = "None"
  /\ termPc' = "idle"
  /\ TermEnded(FALSE, FALSE)
  /\ UNCHANGED <<execv, wlocv, cachv, devv, pfv, stopv, callv>>
  /\ UNCHANGED <<ctl, eta, guiv, detv, lkv, ncv, acq_progress_lock, timer>>

\* terminate with self._executor None: nothing is done.
PH_terminateAgain ==
  /\ Phenom
  /\ nTerm < MaxTerms
  /\ termPc = "idle"
  /\ _executor = "None"
  /\ TermEnded(FALSE, FALSE)
  /\ UNCHANGED <<execv, wlocv, cachv, devv, pfv, stopv, callv>>
  /\ UNCHANGED <<ctl, eta, guiv, detv, lkv, _executor, termPc, ncv, acq_progress_lock, timer>>

\* ------------------------------------- the lock shared by the Phenom components
\* parent._acq_progress_lock is one lock for the whole microscope.  Another
\* actuator's worker enters "with self.parent._acq_progress_lock" (it waits
\* while the lock is held) ...
PH_otherLocks ==
  /\ Phenom
  /\ acq_progress_lock = "free"
  /\ acq_progress_lock' = "other"
  /\ UNCHANGED <<execv, wlocv, cachv, devv, pfv, stopv, callv, ctlv, timer>>

\* ... and leaves it when its _changePressure / _doMoveAbs / _checkQueue
\* is over.
PH_otherUnlocks ==
  /\ Phenom
  /\ acq_progress_lock = "other"
  /\ acq_progress_lock' = "free"
  /\ UNCHANGED <<execv, wlocv, cachv, devv, pfv, stopv, callv, ctlv, timer>>

\* ------------------------------------------------------------ PhenomFocus
PF == ctl = "PhenomFocus"

\* task: the future submitted for the move, 0 when submit() raised.
QueuedMove(typ, arg) ==
  [typ |-> typ, z |-> arg["z"],
   task |-> IF _executor = "live" THEN Len(futures) + 1 ELSE 0]

\* PhenomFocus.moveRel
PF_moveRel(shift) ==
  /\ PF
  /\ IF DOMAIN shift = {}
       THEN /\ Returned("moveRel", RelKind(shift), "instant")
            /\ UNCHANGED <<futures, workq, _moves_queue, reqs>>
       ELSE IF ~checkMoveRel(shift, {"z"})
         THEN /\ Returned("moveRel", RelKind(shift), "ValueError")
              /\ UNCHANGED <<futures, workq, _moves_queue, reqs>>
         ELSE /\ _moves_queue' = Append(_moves_queue, QueuedMove("moveRel", shift))
              /\ reqs' = IF _executor = "live"
                           THEN Append(reqs, [typ |-> "moveRel", z |-> shift["z"]])
                           ELSE reqs
              /\ trySubmit("_checkQueue", EmptyDict)
              /\ Returned("moveRel", RelKind(shift), SubmitOutcome)
  /\ UNCHANGED <<wtask, wpc, wfn, wlocv, cachv, devv, wd, batch, writes, stopv, miscv>>

\* PhenomFocus.moveAbs
PF_moveAbs(pos) ==
  /\ PF
  /\ IF DOMAIN pos = {}
       THEN /\ Returned("moveAbs", AbsKind(pos), "instant")
            /\ UNCHANGED <<futures, workq, _moves_queue, reqs>>
       ELSE IF ~checkMoveAbs(pos, {"z"})
         THEN /\ Returned("moveAbs", AbsKind(pos), "ValueError")
              /\ UNCHANGED <<futures, workq, _moves_queue, reqs>>
         ELSE /\ _moves_queue' = Append(_moves_queue, QueuedMove("moveAbs", pos))
              /\ reqs' = IF _executor = "live"
                           THEN Append(reqs, [typ |-> "moveAbs", z |-> pos["z"]])
                           ELSE reqs
              /\ trySubmit("_checkQueue", EmptyDict)
              /\ Returned("moveAbs", AbsKind(pos), SubmitOutcome)
  /\ UNCHANGED <<wtask, wpc, wfn, wlocv, cachv, devv, wd, batch, writes, stopv, miscv>>

\* The worker starts the next _checkQueue.
PF_start ==
  /\ PF
  /\ WorkerTake("check")
  /\ UNCHANGED <<wpos, wexc, done, log, cachv, devv, pfv, stopv, miscv, callv>>

\* _checkQueue without the test of line 865: it always goes on to the lock.
PF_check_alwaysLocks ==
  /\ PF
  /\ wpc = "check"
  /\ wpc' = "lock"
  /\ UNCHANGED <<futures, wtask, wfn, whist, done, log>>
  /\ UNCHANGED <<workq, wpos, wexc, nAtStart, cachv, devv, pfv, stopv, miscv, callv>>

\* _checkQueue, line 865: an empty queue is a no-op.
PF_check ==
  /\ PF
  /\ wpc = "check"
  /\ IF _moves_queue = <<>>
       THEN WorkerDone(futures, "ok", whist)
       ELSE wpc' = "lock" /\ UNCHANGED <<futures, wtask, wfn, whist, done, log>>
  /\ UNCHANGED <<workq, wpos, wexc, nAtStart, cachv, devv, pfv, stopv, miscv, callv>>

\* _checkQueue, lines 868-870: take the shared lock and read the working
\* distance.  A device fault leaves the with block and fails the task.
PF_getWD ==
  /\ PF
  /\ wpc = "lock"
  /\ acq_progress_lock = "free"
  /\ \E fault \in BOOLEAN :
       IF fault
         THEN /\ WorkerDone(futures, "fault", whist)
              /\ UNCHANGED <<acq_progress_lock, wd, batch>>
         ELSE /\ acq_progress_lock' = "worker"
              /\ wd' = devPos
              /\ batch' = <<>>
              /\ wpc' = "pop"
              /\ UNCHANGED <<futures, wtask, wfn, whist, done, log>>
  /\ UNCHANGED <<workq, wpos, wexc, nAtStart, cachv, devv, _moves_queue, writes, reqs,
                 stopv, ctlv, timer, callv>>

\* PF_pop with a relative move replacing the accumulated distance.
PF_pop_relReplaces ==
  /\ PF
  /\ wpc = "pop"
  /\ IF _moves_queue = <<>>
       THEN /\ wpc' = "set"
            /\ UNCHANGED <<_moves_queue, wd, batch>>
       ELSE /\ _moves_queue' = Tail(_moves_queue)
            /\ wd' = Head(_moves_queue).z
            /\ batch' = Append(batch, [typ |-> Head(_moves_queue).typ,
                                       z |-> Head(_moves_queue).z,
                                       task |-> Head(_moves_queue).task,
                                       state |-> IF Head(_moves_queue).task = 0
                                                  THEN "REJECTED"
                                                  ELSE futures[Head(_moves_queue).task].state])
            /\ wpc' = "pop"
  /\ UNCHANGED <<futures, workq, wtask, wfn, wlocv, cachv, devv, writes, reqs, stopv, miscv,
                 callv>>

\* PF_pop with an absolute move added to the accumulated distance.
PF_pop_absAdds ==
  /\ PF
  /\ wpc = "pop"
  /\ IF _moves_queue = <<>>
       THEN /\ wpc' = "set"
            /\ UNCHANGED <<_moves_queue, wd, batch>>
       ELSE /\ _moves_queue' = Tail(_moves_queue)
            /\ wd' = wd + Head(_moves_queue).z
            /\ batch' = Append(batch, [typ |-> Head(_moves_queue).typ,
                                       z |-> Head(_moves_queue).z,
                                       task |-> Head(_moves_queue).task,
                                       state |-> IF Head(_moves_queue).task = 0
                                                  THEN "REJECTED"
                                                  ELSE futures[Head(_moves_queue).task].state])
            /\ wpc' = "pop"
  /\ UNCHANGED <<futures, workq, wtask, wfn, wlocv, cachv, devv, writes, reqs, stopv, miscv,
                 callv>>

\* PF_pop with an absolute move that also discards the relative moves
\* queued after it.
PF_pop_absFinal ==
  /\ PF
  /\ wpc = "pop"
  /\ IF _moves_queue = <<>>
       THEN /\ wpc' = "set"
            /\ UNCHANGED <<_moves_queue, wd, batch>>
       ELSE /\ _moves_queue' = Tail(_moves_queue)
            /\ wd' = IF Head(_moves_queue).typ = "moveRel"
                       THEN IF \E j \in 1 .. Len(batch) : batch[j].typ = "moveAbs"
                              THEN wd
                              ELSE wd + Head(_moves_queue).z
                       ELSE Head(_moves_queue).z
            /\ batch' = Append(batch, [typ |-> Head(_moves_queue).typ,
                                       z |-> Head(_moves_queue).z,
                                       task |-> Head(_moves_queue).task,
                                       state |-> IF Head(_moves_queue).task = 0
                                                  THEN "REJECTED"
                                                  ELSE futures[Head(_moves_queue).task].state])
            /\ wpc' = "pop"
  /\ UNCHANGED <<futures, workq, wtask, wfn, wlocv, cachv, devv, writes, reqs, stopv, miscv,
                 callv>>

\* _checkQueue, lines 871-880: pop one move and fold it into wd; IndexError
\* ends the loop.  The popped move is kept in batch with the state its
\* future had when it was popped.
PF_pop ==
  /\ PF
  /\ wpc = "pop"
  /\ IF _moves_queue = <<>>
       THEN /\ wpc' = "set"
            /\ UNCHANGED <<_moves_queue, wd, batch>>
       ELSE /\ _moves_queue' = Tail(_moves_queue)
            /\ wd' = IF Head(_moves_queue).typ = "moveRel"
                       THEN wd + Head(_moves_queue).z
                       ELSE Head(_moves_queue).z
            /\ batch' = Append(batch, [typ |-> Head(_moves_queue).typ,
                                       z |-> Head(_moves_queue).z,
                                       task |-> Head(_moves_queue).task,
                                       state |-> IF Head(_moves_queue).task = 0
                                                  THEN "REJECTED"
                                                  ELSE futures[Head(_moves_queue).task].state])
            /\ wpc' = "pop"
  /\ UNCHANGED <<futures, workq, wtask, wfn, wlocv, cachv, devv, writes, reqs, stopv, miscv,
                 callv>>

\* _checkQueue, lines 882-883: clip and write the working distance.
PF_setWD ==
  /\ PF
  /\ wpc = "set"
  /\ \E fault \in BOOLEAN :
       IF fault
         THEN /\ acq_progress_lock' = "free"
              /\ wd' = 0
              /\ batch' = <<>>
              /\ WorkerDone(futures, "fault", [whist EXCEPT !.faulted = TRUE])
              /\ UNCHANGED <<devPos, writes>>
         ELSE /\ devPos' = Clip(wd, rng[1], rng[2])
              /\ writes' = Append(writes, [read |-> devPos, batch |-> batch,
                                           value |-> Clip(wd, rng[1], rng[2])])
              /\ whist' = [whist EXCEPT !.moved = TRUE, !.readback = FALSE]
              /\ log' = Cmd
              /\ wpc' = "upd"
              /\ UNCHANGED <<futures, wtask, wfn, done, wd, batch, acq_progress_lock>>
  /\ UNCHANGED <<workq, wpos, wexc, nAtStart, cachv, devMoving, devTarget, inflight,
                 _moves_queue, reqs, stopv, ctlv, timer, callv>>

\* _checkQueue, line 884 (_updatePosition, lines 849-859); the lock is
\* released and the future resolved.
PF_updatePosition ==
  /\ PF
  /\ wpc = "upd"
  /\ \E fault \in BOOLEAN :
       IF fault
         THEN /\ WorkerDone(futures, "fault", [whist EXCEPT !.readback = TRUE])
              /\ UNCHANGED position
         ELSE /\ position' = devPos
              /\ WorkerDone(futures, "ok", [whist EXCEPT !.readback = TRUE])
  /\ acq_progress_lock' = "free"
  /\ wd' = 0
  /\ batch' = <<>>
  /\ UNCHANGED <<workq, wpos, wexc, nAtStart, _position, devv, _moves_queue, writes, reqs,
                 stopv, ctlv, timer, callv>>

\* ------------------------------------------------------------ XT Stage
\* xt_client.Stage, on one axis.  Every call of the parent (move_stage,
\* stage_is_moving, stop_stage_movement, get_stage_position) holds
\* SEM._proxy_access for the call, so each is one atomic step; each may
\* raise.
XS == ctl = "XTStage"

\* SEM.stop_stage_movement on the device: the stage stops where it is, or,
\* for a device that never reports settled, keeps answering "moving".
Aborted ==
  /\ devMoving' \in {FALSE, devMoving}
  /\ devTarget' = IF devMoving' THEN devTarget ELSE 0
  /\ nAbort' = nAbort + 1
  /\ UNCHANGED <<devPos, inflight>>

\* The exception leaving the try block of _moveTo, lines 1179-1182.
Raised(exc) == IF futures[wtask].must_stop THEN "cancelled" ELSE exc

\* XS_moveAbs submitting the move before it checks the range.
XS_moveAbs_submitsFirst(pos) ==
  /\ XS
  /\ IF DOMAIN pos = {}
       THEN Returned("moveAbs", AbsKind(pos), "instant") /\ UNCHANGED <<futures, workq>>
       ELSE /\ submit("_doMoveAbs", pos)
            /\ IF ~checkMoveAbs(pos, {"x"})
                 THEN Returned("moveAbs", AbsKind(pos), "ValueError")
                 ELSE Returned("moveAbs", AbsKind(pos), "future")
  /\ UNCHANGED <<wtask, wpc, wfn, wlocv, cachv, devv, pfv, stopv, miscv>>

\* Stage.moveAbs
XS_moveAbs(pos) ==
  /\ XS
  /\ IF DOMAIN pos = {}
       THEN Returned("moveAbs", AbsKind(pos), "instant") /\ UNCHANGED <<futures, workq>>
       ELSE IF ~checkMoveAbs(pos, {"x"})
         THEN Returned("moveAbs", AbsKind(pos), "ValueError") /\ UNCHANGED <<futures, workq>>
         ELSE submit("_doMoveAbs", pos) /\ Returned("moveAbs", AbsKind(pos), "future")
  /\ UNCHANGED <<wtask, wpc, wfn, wlocv, cachv, devv, pfv, stopv, miscv>>

\* Stage.moveRel
XS_moveRel(shift) ==
  /\ XS
  /\ IF DOMAIN shift = {}
       THEN Returned("moveRel", RelKind(shift), "instant") /\ UNCHANGED <<futures, workq>>
       ELSE IF ~checkMoveRel(shift, {"x"})
         THEN Returned("moveRel", RelKind(shift), "ValueError") /\ UNCHANGED <<futures, workq>>
         ELSE submit("_doMoveRel", shift) /\ Returned("moveRel", RelKind(shift), "future")
  /\ UNCHANGED <<wtask, wpc, wfn, wlocv, cachv, devv, pfv, stopv, miscv>>

\* The worker starts the next future: _doMoveAbs goes straight to _moveTo.
XS_start ==
  /\ XS
  /\ wtask = 0 /\ workq # <<>>
  /\ WorkerTake(IF Head(workq).fn = "_doMoveRel" THEN "rel" ELSE "lock")
  /\ wpos' = IF Head(workq).fn = "_doMoveRel" THEN 0 ELSE Head(workq).arg["x"]
  /\ UNCHANGED <<wexc, done, log, cachv, devv, pfv, stopv, miscv, callv>>

\* _doMoveRel, lines 1189-1199: read the position, add the shift, check the range.
XS_doMoveRel ==
  /\ XS
  /\ wpc = "rel"
  /\ \E fault \in BOOLEAN :
       IF fault
         THEN wexc' = "fault" /\ wpc' = "resolve" /\ UNCHANGED wpos
         ELSE IF ~InRange(devPos + wfn.arg["x"])
           THEN wexc' = "ValueError" /\ wpc' = "resolve" /\ UNCHANGED wpos
           ELSE wpos' = devPos + wfn.arg["x"] /\ wpc' = "lock" /\ UNCHANGED wexc
  /\ UNCHANGED <<futures, workq, wtask, wfn, whist, done, log, nAtStart, cachv, devv, pfv,
                 stopv, miscv, callv>>

\* _moveTo, lines 1146-1149: take future._moving_lock, check _must_stop.
XS_lock ==
  /\ XS
  /\ wpc = "lock"
  /\ futures[wtask].moving_lock = "free"
  /\ futures' = [futures EXCEPT ![wtask].moving_lock = "worker"]
  /\ IF futures[wtask].must_stop
       THEN wexc' = "cancelled" /\ wpc' = "finally"
       ELSE wexc' = "none" /\ wpc' = "move"
  /\ UNCHANGED <<workq, wtask, wfn, wpos, whist, done, log, nAtStart, cachv, devv, pfv,
                 stopv, miscv, callv>>

\* _moveTo, line 1151: move_stage(pos).
XS_move ==
  /\ XS
  /\ wpc = "move"
  /\ \E fault \in BOOLEAN :
       IF fault
         THEN /\ wexc' = Raised("fault")
              /\ wpc' = "finally"
              /\ whist' = [whist EXCEPT !.moved = TRUE, !.readback = FALSE,
                                        !.faulted = TRUE]
              /\ UNCHANGED devv
         ELSE /\ devMoving' = TRUE
              /\ devTarget' = wpos
              /\ wpc' = "getpos"
              /\ whist' = [whist EXCEPT !.moved = TRUE, !.readback = FALSE]
              /\ UNCHANGED <<wexc, devPos, inflight>>
  /\ log' = Cmd
  /\ UNCHANGED <<futures, workq, wtask, wfn, wpos, done, nAtStart, cachv, pfv, stopv,
                 miscv, callv>>

\* _moveTo, line 1161: pos = get_stage_position().
XS_getpos ==
  /\ XS
  /\ wpc = "getpos"
  /\ \E fault \in BOOLEAN :
       IF fault
         THEN wexc' = Raised("fault") /\ wpc' = "finally" /\ UNCHANGED wpos
         ELSE wpos' = devPos /\ wpc' = "ismoving" /\ UNCHANGED wexc
  /\ UNCHANGED <<futures, workq, wtask, wfn, whist, done, log, nAtStart, cachv, devv, pfv,
                 stopv, miscv, callv>>

\* _moveTo, lines 1162-1178: moving = stage_is_moving(), the cache takes pos,
\* then the timeout check, the loop test and, out of the loop, the
\* _must_stop check.
XS_ismoving ==
  /\ XS
  /\ wpc = "ismoving"
  /\ \E fault \in BOOLEAN, late \in BOOLEAN :
       IF fault
         THEN /\ wexc' = Raised("fault")
              /\ wpc' = "finally"
              /\ UNCHANGED <<whist, position>>
         ELSE /\ position' = wpos
              /\ whist' = [whist EXCEPT !.readback = TRUE,
                                        !.observed = IF devMoving THEN "moving" ELSE "stopped"]
              /\ IF late
                   THEN wpc' = "timeout" /\ UNCHANGED wexc
                   ELSE IF devMoving
                     THEN wpc' = "getpos" /\ UNCHANGED wexc
                     ELSE wpc' = "finally" /\ wexc' = Raised("ok")
  /\ UNCHANGED <<futures, workq, wtask, wfn, wpos, done, log, nAtStart, _position, devv, pfv,
                 stopv, miscv, callv>>

\* _moveTo, lines 1166-1169 and 1177: after the timeout, stop_stage_movement()
\* and break; then the _must_stop check.
XS_timeout ==
  /\ XS
  /\ wpc = "timeout"
  /\ \E fault \in BOOLEAN :
       IF fault
         THEN /\ wexc' = Raised("fault")
              /\ UNCHANGED <<devv, nAbort>>
         ELSE /\ Aborted
              /\ wexc' = Raised("ok")
  /\ whist' = [whist EXCEPT !.timedOut = TRUE]
  /\ wpc' = "finally"
  /\ UNCHANGED <<futures, workq, wtask, wfn, wpos, done, log, nAtStart, cachv, pfv,
                 stopPc, stopFut, nStops, lastStop, miscv, callv>>

\* _moveTo, lines 1183-1186: _was_stopped, _updatePosition(), lock released.
\* An exception of the read-back replaces the one in flight.
XS_finally ==
  /\ XS
  /\ wpc = "finally"
  /\ futures' = [futures EXCEPT ![wtask].was_stopped = TRUE, ![wtask].moving_lock = "free"]
  /\ \E fault \in BOOLEAN :
       IF fault
         THEN wexc' = "fault" /\ UNCHANGED position
         ELSE position' = devPos /\ UNCHANGED wexc
  /\ whist' = [whist EXCEPT !.readback = TRUE]
  /\ wpc' = "resolve"
  /\ UNCHANGED <<workq, wtask, wfn, wpos, done, log, nAtStart, _position, devv, pfv, stopv,
                 miscv, callv>>

\* The executor sets the future's result or exception; it waits while a
\* cancel() of this future is in progress.
XS_resolve ==
  /\ XS
  /\ wpc = "resolve"
  /\ ~(stopPc \in {"c_abort", "c_lock"} /\ stopFut = wtask)
  /\ WorkerDone(futures, wexc, whist)
  /\ wpos' = 0
  /\ wexc' = "none"
  /\ UNCHANGED <<workq, nAtStart, cachv, devv, pfv, stopv, miscv, callv>>

\* Stage._refreshPosition, the 5 s timer: failures are logged.
XS_refreshPosition ==
  /\ XS
  /\ position # devPos
  /\ position' = devPos
  /\ UNCHANGED <<execv, wlocv, _position, devv, pfv, stopv, miscv, callv>>

\* The device finishes its move.
XS_deviceSettles ==
  /\ XS
  /\ devMoving
  /\ devMoving' = FALSE
  /\ devPos' = devTarget
  /\ devTarget' = 0
  /\ UNCHANGED <<execv, wlocv, cachv, inflight, pfv, stopv, miscv, callv>>

\* Stage.stop, line 1248: executor.cancel().  The futures not started are
\* cancelled; cancel() of the running one calls _cancelCurrentMove, which
\* sets _must_stop (line 1277).
XS_stop ==
  /\ XS
  /\ StopBegins
  /\ IF Running
       THEN /\ futures' = [CancelPending EXCEPT ![wtask].must_stop = TRUE]
            /\ stopPc' = "c_abort"
       ELSE /\ futures' = CancelPending
            /\ stopPc' = "s_abort"
  /\ UNCHANGED <<wtask, wpc, wfn, wlocv, cachv, devv, pfv, lastStop, miscv, callv>>

\* _cancelCurrentMove, line 1278: stop_stage_movement(); its exception
\* leaves cancel() and stop().
XS_cancelAbort ==
  /\ XS
  /\ stopPc = "c_abort"
  /\ \E fault \in BOOLEAN :
       IF fault
         THEN StopEnded(TRUE, FALSE) /\ UNCHANGED <<devv, nAbort>>
         ELSE Aborted /\ stopPc' = "c_lock" /\ UNCHANGED lastStop
  /\ UNCHANGED <<execv, wlocv, cachv, pfv, stopFut, nStops, miscv, callv>>

\* _cancelCurrentMove that neither waits for the lock nor looks at
\* _was_stopped: it reports the move as stopped at once.
XS_cancelLock_noWait ==
  /\ XS
  /\ stopPc = "c_lock"
  /\ futures' = [futures EXCEPT ![stopFut].state = "CANCELLED",
                                 ![stopFut].result = "cancelled"]
  /\ done' = Outcome(stopFut, "cancelled", whist)
  /\ stopPc' = "s_abort"
  /\ UNCHANGED <<workq, wtask, wpc, wfn, wpos, wexc, whist, nAtStart, log, cachv, devv, pfv,
                 stopFut, nStops, nAbort, lastStop, miscv, callv>>

\* _cancelCurrentMove, lines 1280-1283: take the lock, return _was_stopped.
\* True: the future becomes CANCELLED.  False: cancel() failed and
\* executor.cancel() waits for the future's result.
XS_cancelLock ==
  /\ XS
  /\ stopPc = "c_lock"
  /\ futures[stopFut].moving_lock = "free"
  /\ IF futures[stopFut].was_stopped
       THEN /\ futures' = [futures EXCEPT ![stopFut].state = "CANCELLED",
                                          ![stopFut].result = "cancelled"]
            /\ done' = Outcome(stopFut, "cancelled", whist)
            /\ UNCHANGED log
            /\ stopPc' = "s_abort"
       ELSE /\ stopPc' = "c_wait"
            /\ UNCHANGED <<futures, done, log>>
  /\ UNCHANGED <<workq, wtask, wpc, wfn, wpos, wexc, whist, nAtStart, cachv, devv, pfv,
                 stopFut, nStops, nAbort, lastStop, miscv, callv>>

\* executor.cancel(): f.result() of the future that could not be cancelled.
XS_cancelWait ==
  /\ XS
  /\ stopPc = "c_wait"
  /\ futures[stopFut].state = "FINISHED"
  /\ stopPc' = "s_abort"
  /\ UNCHANGED <<execv, wlocv, cachv, devv, pfv, stopFut, nStops, nAbort, lastStop,
                 miscv, callv>>

\* Stage.stop, line 1249: stop_stage_movement(), outside any try.
XS_stopAbort ==
  /\ XS
  /\ stopPc = "s_abort"
  /\ \E fault \in BOOLEAN :
       IF fault
         THEN StopEnded(TRUE, FALSE) /\ UNCHANGED <<devv, nAbort>>
         ELSE Aborted /\ stopPc' = "s_upd" /\ UNCHANGED lastStop
  /\ UNCHANGED <<execv, wlocv, cachv, pfv, stopFut, nStops, miscv, callv>>

\* Stage.stop, lines 1250-1253: _updatePosition(), failures are logged.
XS_stopUpdate ==
  /\ XS
  /\ stopPc = "s_upd"
  /\ \E fault \in BOOLEAN :
       IF fault
         THEN StopEnded(FALSE, TRUE) /\ UNCHANGED position
         ELSE StopEnded(FALSE, TRUE) /\ position' = devPos
  /\ UNCHANGED <<execv, wlocv, _position, devv, pfv, stopFut, nStops, nAbort, miscv, callv>>

\* ------------------------------------------------------------ Phenom Stage
\* phenom.Stage, axes x and y.  The device keeps the stage within its stroke;
\* a device call that raises leaves the device as it was.
PS == ctl = "PhenomStage"

PSAxes == {"x", "y"}

PSAbsVals == {rng[2], rng[2] + 1}

PSRelVals == {0 - 1, RngSpan + 1}

\* Stage.moveAbs
PS_moveAbs(pos) ==
  /\ PS
  /\ IF DOMAIN pos = {}
       THEN Returned("moveAbs", AbsKind(pos), "instant") /\ UNCHANGED <<futures, workq>>
       ELSE IF ~checkMoveAbs(pos, PSAxes)
         THEN Returned("moveAbs", AbsKind(pos), "ValueError") /\ UNCHANGED <<futures, workq>>
         ELSE trySubmit("_doMoveAbs", pos) /\ Returned("moveAbs", AbsKind(pos), SubmitOutcome)
  /\ UNCHANGED <<wtask, wpc, wfn, wlocv, cachv, devv, pfv, stopv, miscv>>

\* Stage.moveRel
PS_moveRel(shift) ==
  /\ PS
  /\ IF DOMAIN shift = {}
       THEN Returned("moveRel", RelKind(shift), "instant") /\ UNCHANGED <<futures, workq>>
       ELSE IF ~checkMoveRel(shift, PSAxes)
         THEN Returned("moveRel", RelKind(shift), "ValueError") /\ UNCHANGED <<futures, workq>>
         ELSE trySubmit("_doMoveRel", shift) /\ Returned("moveRel", RelKind(shift), SubmitOutcome)
  /\ UNCHANGED <<wtask, wpc, wfn, wlocv, cachv, devv, pfv, stopv, miscv>>

\* The worker starts the next future.
PS_start ==
  /\ PS
  /\ WorkerTake("move")
  /\ UNCHANGED <<wpos, wexc, done, log, cachv, devv, pfv, stopv, miscv, callv>>

\* The position _doMoveAbs sends (lines 754-755): an axis the request does
\* not name takes its value from _position.  _doMoveRel sends the shift,
\* 0 for an axis not named (line 770), and the device adds it.
PSTarget ==
  IF wfn.fn = "_doMoveAbs"
    THEN [a \in PSAxes |-> Get(wfn.arg, a, _position[a])]
    ELSE [a \in PSAxes |-> devPos[a] + Get(wfn.arg, a, 0)]

\* PS_move sending the move command a second time.
PS_move_resends ==
  /\ PS
  /\ wpc = "move"
  /\ acq_progress_lock = "free"
  /\ \E fault \in BOOLEAN :
       IF fault
         THEN /\ WorkerDoneL(futures, "fault", [whist EXCEPT !.moved = TRUE, !.faulted = TRUE],
                             Cmd)
              /\ UNCHANGED <<devPos, acq_progress_lock>>
         ELSE /\ devPos' = [a \in PSAxes |-> Clip(PSTarget[a], rng[1], rng[2])]
              /\ acq_progress_lock' = "worker"
              /\ whist' = [whist EXCEPT !.moved = TRUE, !.readback = FALSE]
              /\ log' = Append(Cmd, <<"cmd", wtask>>)
              /\ wpc' = "upd"
              /\ UNCHANGED <<futures, wtask, wfn, done>>
  /\ UNCHANGED <<workq, wpos, wexc, nAtStart, cachv, devMoving, devTarget, inflight, pfv,
                 stopv, ctlv, timer, callv>>

\* _doMoveAbs / _doMoveRel, first half: take the shared lock, MoveTo / MoveBy.
\* An exception leaves the with block: there is no finally.
PS_move ==
  /\ PS
  /\ wpc = "move"
  /\ acq_progress_lock = "free"
  /\ \E fault \in BOOLEAN :
       IF fault
         THEN /\ WorkerDoneL(futures, "fault", [whist EXCEPT !.moved = TRUE, !.faulted = TRUE],
                             Cmd)
              /\ UNCHANGED <<devPos, acq_progress_lock>>
         ELSE /\ devPos' = [a \in PSAxes |-> Clip(PSTarget[a], rng[1], rng[2])]
              /\ acq_progress_lock' = "worker"
              /\ whist' = [whist EXCEPT !.moved = TRUE, !.readback = FALSE]
              /\ log' = Cmd
              /\ wpc' = "upd"
              /\ UNCHANGED <<futures, wtask, wfn, done>>
  /\ UNCHANGED <<workq, wpos, wexc, nAtStart, cachv, devMoving, devTarget, inflight, pfv,
                 stopv, ctlv, timer, callv>>

\* _doMoveAbs / _doMoveRel, second half: _updatePosition (lines 737-747).
PS_updatePosition ==
  /\ PS
  /\ wpc = "upd"
  /\ \E fault \in BOOLEAN :
       IF fault
         THEN /\ WorkerDone(futures, "fault", [whist EXCEPT !.readback = TRUE])
              /\ UNCHANGED cachv
         ELSE /\ _position' = devPos
              /\ position' = devPos
              /\ WorkerDone(futures, "ok", [whist EXCEPT !.readback = TRUE])
  /\ acq_progress_lock' = "free"
  /\ UNCHANGED <<workq, wpos, wexc, nAtStart, devv, pfv, stopv, ctlv, timer, callv>>

\* ------------------------------------------------------------ ChamberPressure
\* phenom.ChamberPressure, axis "pressure" with three choices, in hundredths
\* of a pascal.
PRESSURE_UNLOADED == 10000000

PRESSURE_NAVCAM == 1000000

PRESSURE_SEM == 1

CP == ctl = "ChamberPressure"

Pressures == {PRESSURE_UNLOADED, PRESSURE_NAVCAM, PRESSURE_SEM}

CPKind(arg) ==
  IF DOMAIN arg = {} THEN "empty"
  ELSE IF \A a \in DOMAIN arg : arg[a] \in Pressures THEN "inrange" ELSE "outofrange"

\* ChamberPressure.moveRel: _checkMoveRel has nothing to check on an
\* enumerated axis; then "for a, v in shift.items:" iterates over a bound
\* method and raises TypeError, whatever the shift.
CP_moveRel(shift) ==
  /\ CP
  /\ Returned("moveRel", CPKind(shift), "TypeError")
  /\ UNCHANGED <<execv, wlocv, cachv, devv, pfv, stopv, miscv>>

\* ChamberPressure.moveAbs
CP_moveAbs(pos) ==
  /\ CP
  /\ IF DOMAIN pos = {}
       THEN Returned("moveAbs", CPKind(pos), "instant") /\ UNCHANGED <<futures, workq>>
       ELSE IF ~(\A a \in DOMAIN pos : a = "pressure" /\ pos[a] \in Pressures)
         THEN Returned("moveAbs", CPKind(pos), "ValueError") /\ UNCHANGED <<futures, workq>>
         ELSE trySubmit("_changePressure", pos) /\ Returned("moveAbs", CPKind(pos), SubmitOutcome)
  /\ UNCHANGED <<wtask, wpc, wfn, wlocv, cachv, devv, pfv, stopv, miscv>>

\* The worker starts the next future.
CP_start ==
  /\ CP
  /\ WorkerTake("lock")
  /\ UNCHANGED <<wpos, wexc, done, log, cachv, devv, pfv, stopv, miscv, callv>>

\* _changePressure, lines 1291-1295: take the shared lock, start the
\* TimeUpdater.
CP_lock ==
  /\ CP
  /\ wpc = "lock"
  /\ acq_progress_lock = "free"
  /\ acq_progress_lock' = "worker"
  /\ timer' = "on"
  /\ wpc' = "call"
  /\ UNCHANGED <<futures, workq, wtask, wfn, wlocv, cachv, devv, pfv, stopv, ctlv, callv>>

\* _changePressure, lines 1297-1306: the worker enters SelectImagingDevice /
\* UnloadSample, which lasts for the whole pressure change.
CP_callBegin ==
  /\ CP
  /\ wpc = "call"
  /\ inflight' = inflight \cup {"worker"}
  /\ whist' = [whist EXCEPT !.moved = TRUE, !.readback = FALSE]
  /\ log' = Cmd
  /\ wpc' = "incall"
  /\ UNCHANGED <<futures, workq, wtask, wfn, wpos, wexc, done, nAtStart, cachv, devPos,
                 devMoving, devTarget, pfv, stopv, miscv, callv>>

\* The device call returns, or raises: suds.WebFault is logged (lines
\* 1307-1308), anything else leaves _changePressure with the TimeUpdater
\* still running.
CP_callEnd ==
  /\ CP
  /\ wpc = "incall"
  /\ inflight' = inflight \ {"worker"}
  /\ \E exc \in {"none", "WebFault", "fault"} :
       IF exc = "fault"
         THEN /\ WorkerDone(futures, "fault", [whist EXCEPT !.faulted = TRUE])
              /\ acq_progress_lock' = "free"
              /\ UNCHANGED devPos
         ELSE /\ devPos' = IF exc = "none" THEN wfn.arg["pressure"] ELSE devPos
              /\ whist' = [whist EXCEPT !.faulted = (exc = "WebFault")]
              /\ wpc' = "upd"
              /\ UNCHANGED <<futures, wtask, wfn, done, log, acq_progress_lock>>
  /\ UNCHANGED <<workq, wpos, wexc, nAtStart, cachv, devMoving, devTarget, pfv, stopv,
                 ctlv, timer, callv>>

\* _changePressure waiting, before its read-back, for the TimeUpdater's
\* thread to be out of its remaining-time query.
CP_updatePosition_joinsTimer ==
  /\ CP
  /\ wpc = "upd"
  /\ "timer" \notin inflight
  /\ \E fault \in BOOLEAN :
       IF fault
         THEN /\ WorkerDone(futures, "fault", [whist EXCEPT !.readback = TRUE])
              /\ UNCHANGED <<position, timer>>
         ELSE /\ position' = devPos
              /\ timer' = "off"
              /\ WorkerDone(futures, "ok", [whist EXCEPT !.readback = TRUE])
  /\ acq_progress_lock' = "free"
  /\ UNCHANGED <<workq, wpos, wexc, nAtStart, _position, devv, pfv, stopv, ctlv, callv>>

\* _changePressure, lines 1313-1314: _updatePosition(), TimeUpdater.cancel().
CP_updatePosition ==
  /\ CP
  /\ wpc = "upd"
  /\ \E fault \in BOOLEAN :
       IF fault
         THEN /\ WorkerDone(futures, "fault", [whist EXCEPT !.readback = TRUE])
              /\ UNCHANGED <<position, timer>>
         ELSE /\ position' = devPos
              /\ timer' = "off"
              /\ WorkerDone(futures, "ok", [whist EXCEPT !.readback = TRUE])
  /\ acq_progress_lock' = "free"
  /\ UNCHANGED <<workq, wpos, wexc, nAtStart, _position, devv, pfv, stopv, ctlv, callv>>

\* _updateTime, line 1317, on the TimeUpdater's thread: it enters
\* GetProgressAreaSelection without taking any lock.
CP_updateTimeBegin ==
  /\ CP
  /\ timer = "on"
  /\ "timer" \notin inflight
  /\ inflight' = inflight \cup {"timer"}
  /\ UNCHANGED <<execv, wlocv, cachv, devPos, devMoving, devTarget, pfv, stopv, miscv, callv>>

\* _updateTime: the call returns (line 1318 then moves the future's end
\* time) or raises on the timer's thread.
CP_updateTimeEnd ==
  /\ CP
  /\ "timer" \in inflight
  /\ inflight' = inflight \ {"timer"}
  /\ \E fault \in BOOLEAN : eta' = IF fault THEN "fault" ELSE "set"
  /\ UNCHANGED <<execv, wlocv, cachv, devPos, devMoving, devTarget, pfv, stopv, callv>>
  /\ UNCHANGED <<ctl, termv, ncv, guiv, detv, lkv, acq_progress_lock, timer>>

\* ------------------------------------------------------------ XT Focus
\* xt_client.Focus, axis z.  Its move futures have no task_canceller: a
\* running one cannot be cancelled and stop() waits for it.
XF == ctl = "XTFocus"

\* Focus.moveAbs
XF_moveAbs(pos) ==
  /\ XF
  /\ IF DOMAIN pos = {}
       THEN Returned("moveAbs", AbsKind(pos), "instant") /\ UNCHANGED <<futures, workq, reqs>>
       ELSE IF ~checkMoveAbs(pos, {"z"})
         THEN Returned("moveAbs", AbsKind(pos), "ValueError") /\ UNCHANGED <<futures, workq, reqs>>
         ELSE /\ submit("_doMoveAbs", pos)
              /\ reqs' = Append(reqs, [typ |-> "moveAbs", z |-> pos["z"]])
              /\ Returned("moveAbs", AbsKind(pos), "future")
  /\ UNCHANGED <<wtask, wpc, wfn, wlocv, cachv, devv, _moves_queue, wd, batch, writes,
                 stopv, miscv>>

\* Focus.moveRel
XF_moveRel(shift) ==
  /\ XF
  /\ IF DOMAIN shift = {}
       THEN Returned("moveRel", RelKind(shift), "instant") /\ UNCHANGED <<futures, workq, reqs>>
       ELSE IF ~checkMoveRel(shift, {"z"})
         THEN Returned("moveRel", RelKind(shift), "ValueError") /\ UNCHANGED <<futures, workq, reqs>>
         ELSE /\ submit("_doMoveRel", shift)
              /\ reqs' = Append(reqs, [typ |-> "moveRel", z |-> shift["z"]])
              /\ Returned("moveRel", RelKind(shift), "future")
  /\ UNCHANGED <<wtask, wpc, wfn, wlocv, cachv, devv, _moves_queue, wd, batch, writes,
                 stopv, miscv>>

\* The worker starts the next future.
XF_start ==
  /\ XF
  /\ wtask = 0 /\ workq # <<>>
  /\ WorkerTake(IF Head(workq).fn = "_doMoveRel" THEN "get" ELSE "set")
  /\ wpos' = IF Head(workq).fn = "_doMoveRel" THEN 0 ELSE Head(workq).arg["z"]
  /\ UNCHANGED <<wexc, done, log, cachv, devv, pfv, stopv, miscv, callv>>

\* _doMoveRel, line 1397: foc += get_free_working_distance().
XF_getFwd ==
  /\ XF
  /\ wpc = "get"
  /\ \E fault \in BOOLEAN :
       IF fault
         THEN wexc' = "fault" /\ wpc' = "finally" /\ UNCHANGED wpos
         ELSE wpos' = wfn.arg["z"] + devPos /\ wpc' = "set" /\ UNCHANGED wexc
  /\ UNCHANGED <<futures, workq, wtask, wfn, whist, done, log, nAtStart, cachv, devv, pfv,
                 stopv, miscv, callv>>

\* _doMoveRel, line 1398 / _doMoveAbs, line 1409: set_free_working_distance(foc).
\* The value is sent as it is; the device keeps the focus within its range.
XF_setFwd ==
  /\ XF
  /\ wpc = "set"
  /\ \E fault \in BOOLEAN :
       IF fault
         THEN /\ wexc' = "fault"
              /\ whist' = [whist EXCEPT !.moved = TRUE, !.readback = FALSE,
                                        !.faulted = TRUE]
              /\ UNCHANGED <<devPos, writes>>
         ELSE /\ devPos' = Clip(wpos, rng[1], rng[2])
              /\ writes' = Append(writes, [read |-> devPos, batch |-> <<>>, value |-> wpos])
              /\ whist' = [whist EXCEPT !.moved = TRUE, !.readback = FALSE]
              /\ wexc' = "ok"
  /\ log' = Cmd
  /\ wpc' = "finally"
  /\ UNCHANGED <<futures, workq, wtask, wfn, wpos, done, nAtStart, cachv, devMoving,
                 devTarget, inflight, _moves_queue, wd, batch, reqs, stopv, miscv, callv>>

\* The finally block, lines 1399-1401 / 1410-1412: _updatePosition(); its
\* exception replaces the one in flight.  Then the future is resolved.
XF_finally ==
  /\ XF
  /\ wpc = "finally"
  /\ \E fault \in BOOLEAN :
       IF fault
         THEN /\ WorkerDone(futures, "fault", [whist EXCEPT !.readback = TRUE])
              /\ UNCHANGED position
         ELSE /\ position' = devPos
              /\ WorkerDone(futures, wexc, [whist EXCEPT !.readback = TRUE])
  /\ wpos' = 0
  /\ wexc' = "none"
  /\ UNCHANGED <<workq, nAtStart, _position, devv, pfv, stopv, miscv, callv>>

\* Focus.stop, line 1445: executor.cancel().
XF_stop ==
  /\ XF
  /\ StopBegins
  /\ futures' = CancelPending
  /\ stopPc' = IF Running THEN "wait" ELSE "s_upd"
  /\ UNCHANGED <<wtask, wpc, wfn, wlocv, cachv, devv, pfv, lastStop, miscv, callv>>

\* executor.cancel(): f.result() of the future that was running.
XF_stopWait ==
  /\ XF
  /\ stopPc = "wait"
  /\ futures[stopFut].state = "FINISHED"
  /\ stopPc' = "s_upd"
  /\ UNCHANGED <<execv, wlocv, cachv, devv, pfv, stopFut, nStops, nAbort, lastStop,
                 miscv, callv>>

\* Focus.stop, lines 1448-1451: _updatePosition(), failures are logged.
XF_stopUpdate ==
  /\ XF
  /\ stopPc = "s_upd"
  /\ \E fault \in BOOLEAN :
       IF fault
         THEN StopEnded(FALSE, TRUE) /\ UNCHANGED position
         ELSE StopEnded(FALSE, TRUE) /\ position' = devPos
  /\ UNCHANGED <<execv, wlocv, _position, devv, pfv, stopFut, nStops, nAbort, miscv, callv>>

\* Focus._refreshPosition, the 5 s timer: failures are logged.
XF_refreshPosition ==
  /\ XF
  /\ position # devPos
  /\ position' = devPos
  /\ UNCHANGED <<execv, wlocv, _position, devv, pfv, stopv, miscv, callv>>

\* ----------------------------------------------------------------- NavCam
NC == ctl = "NavCam"

Alive == acquire_thread \in {"loop", "frame", "notify"}

\* NavCam.start_flow, when the Phenom is in the NAVCAM area:
\* wait_stopped_flow() joins a thread that was asked to stop, then the
\* acquisition thread is started (acquisition_lock is free once the previous
\* thread ended).
NC_start_flow ==
  /\ NC
  /\ nCalls < MaxCalls
  /\ nCalls' = nCalls + 1
  /\ ~Alive
  /\ acquire_thread # "None" \/ ~acquire_must_stop
  /\ acquire_must_stop' = FALSE
  /\ acquire_thread' = "loop"
  /\ UNCHANGED <<execv, wlocv, cachv, devv, pfv, stopv, lastCall>>
  /\ UNCHANGED <<ctl, eta, guiv, detv, lkv, termv, acq_progress_lock, timer>>

\* _acquire_thread_continuous, the while test: the thread ends when
\* acquire_must_stop is set (and clears it), else it takes the lock for a frame.
NC_loop ==
  /\ NC
  /\ acquire_thread = "loop"
  /\ IF acquire_must_stop
       THEN /\ acquire_thread' = "dead"
            /\ acquire_must_stop' = FALSE
            /\ UNCHANGED acq_progress_lock
       ELSE /\ acq_progress_lock = "free"
            /\ acq_progress_lock' = "navcam"
            /\ acquire_thread' = "frame"
            /\ UNCHANGED acquire_must_stop
  /\ UNCHANGED <<execv, wlocv, cachv, devv, pfv, stopv, callv, ctl, eta, guiv, detv, lkv, termv, timer>>

\* One frame, lines 1059-1060: NavCamAcquireImageCopy returns an image, or
\* raises suds.WebFault (lines 1071-1075), which ends the frame.
NC_frame ==
  /\ NC
  /\ acquire_thread = "frame"
  /\ \E fault \in BOOLEAN :
       IF fault
         THEN acq_progress_lock' = "free" /\ acquire_thread' = "loop"
         ELSE acquire_thread' = "notify" /\ UNCHANGED acq_progress_lock
  /\ UNCHANGED <<execv, wlocv, cachv, devv, pfv, stopv, callv, ctl, eta, guiv, detv, lkv, termv, timer>>
  /\ UNCHANGED acquire_must_stop

\* Lines 1061-1070: the image is decoded and callback(array) is called; the
\* lock is released at the end of the with block.
NC_notify ==
  /\ NC
  /\ acquire_thread = "notify"
  /\ acq_progress_lock' = "free"
  /\ acquire_thread' = "loop"
  /\ UNCHANGED <<execv, wlocv, cachv, devv, pfv, stopv, callv, ctl, eta, guiv, detv, lkv, termv, timer>>
  /\ UNCHANGED acquire_must_stop

\* NavCam.req_stop_flow, as NavCamDataFlow.stop_generate calls it: the assert,
\* then the event is set and NavCamAbortImageAcquisition is called.
NC_req_stop_flow ==
  /\ NC
  /\ nStops < MaxStops
  /\ nStops' = nStops + 1
  /\ acquire_must_stop' = TRUE
  /\ UNCHANGED <<execv, wlocv, cachv, devv, pfv, stopPc, stopFut, nAbort, lastStop, callv>>
  /\ UNCHANGED <<ctl, eta, guiv, detv, lkv, termv, acquire_thread, acq_progress_lock, timer>>

\* NavCam.terminate: req_stop_flow().  The assert raises when the event is
\* still set; otherwise the event is set and the device is called.
NC_terminate ==
  /\ NC
  /\ nTerm < MaxTerms
  /\ TermEnded(acquire_must_stop, ~acquire_must_stop)
  /\ acquire_must_stop' = TRUE
  /\ UNCHANGED <<execv, wlocv, cachv, devv, pfv, stopv, callv>>
  /\ UNCHANGED <<ctl, eta, guiv, detv, lkv, _executor, termPc, acquire_thread, acq_progress_lock, timer>>

\* ------------------------------------------------------------ MainGUIData
\* gui/model/__init__.py, MainGUIData.stopMotion.  The actuators are numbered
\* in the order of microscope.actuators; whether a stop() raises is decided
\* when it is called.
GUI == ctl = "MainGUIData"

\* microscope is None.
NoMicroscope == [present |-> FALSE, actuators |-> 0]

\* stopMotion whose handler lets the exception of act.stop() through.
GUI_actStop_propagates ==
  /\ GUI
  /\ smPc > 0
  /\ stopCalls' = [stopCalls EXCEPT ![smPc] = @ + 1]
  /\ \E raises \in BOOLEAN :
       /\ actRaised' = [actRaised EXCEPT ![smPc] = raises]
       /\ IF raises
            THEN smPc' = 0 /\ smReturned' = "raised"
            ELSE IF smPc = microscope.actuators
              THEN smPc' = 0 /\ smReturned' = "returned"
              ELSE smPc' = smPc + 1 /\ UNCHANGED smReturned
  /\ UNCHANGED <<execv, wlocv, cachv, devv, pfv, stopv, callv>>
  /\ UNCHANGED <<ctl, termv, ncv, eta, detv, lkv, microscope, smCalls, agv, acq_progress_lock, timer>>

\* stopMotion, lines 271-274: with no microscope it returns at once;
\* otherwise the loop over microscope.actuators begins.
GUI_stopMotion ==
  /\ GUI
  /\ smPc = 0
  /\ smCalls < MaxMotionStops
  /\ smCalls' = smCalls + 1
  /\ stopCalls' = [i \in 1 .. MaxActs |-> 0]
  /\ actRaised' = [i \in 1 .. MaxActs |-> FALSE]
  /\ IF ~microscope.present \/ microscope.actuators = 0
       THEN smPc' = 0 /\ smReturned' = "returned"
       ELSE smPc' = 1 /\ smReturned' = "none"
  /\ UNCHANGED <<execv, wlocv, cachv, devv, pfv, stopv, callv>>
  /\ UNCHANGED <<ctl, termv, ncv, eta, detv, lkv, microscope, agv, acq_progress_lock, timer>>

\* Lines 276-282: act.stop() inside try; an Exception is logged and the loop
\* goes on with the next actuator.
GUI_actStop ==
  /\ GUI
  /\ smPc > 0
  /\ stopCalls' = [stopCalls EXCEPT ![smPc] = @ + 1]
  /\ \E raises \in BOOLEAN : actRaised' = [actRaised EXCEPT ![smPc] = raises]
  /\ IF smPc = microscope.actuators
       THEN smPc' = 0 /\ smReturned' = "returned"
       ELSE smPc' = smPc + 1 /\ UNCHANGED smReturned
  /\ UNCHANGED <<execv, wlocv, cachv, devv, pfv, stopv, callv>>
  /\ UNCHANGED <<ctl, termv, ncv, eta, detv, lkv, microscope, smCalls, agv, acq_progress_lock, timer>>

\* -------------------------------------------------------- ActuatorGUIData
\* gui/model/__init__.py, ActuatorGUIData.step, for one axis.  Distances are
\* counted in StepUnits of 0.5 mm.
AG == ctl = "ActuatorGUIData"

\* Range of the step size VA: up to 1e-3 m (line 424).
StepsizeMax == 2

\* 10e-3 m (line 490): beyond it a distance is "too big".
TooBig == 20

\* The user changes the step size VA, within its range.
AG_setStepsize ==
  /\ AG
  /\ Len(steps) < MaxSteps
  /\ \E v \in 1 .. StepsizeMax : v # stepsizes /\ stepsizes' = v
  /\ UNCHANGED <<execv, wlocv, cachv, devv, pfv, stopv, callv>>
  /\ UNCHANGED <<ctl, termv, ncv, eta, detv, lkv, microscope, smPc, smCalls, smReturned,
                 stopCalls, actRaised, steps, acq_progress_lock, timer>>

\* step(axis, factor), lines 485-499: ss = factor * stepsize; a warning is
\* logged when |ss| > 10e-3; then moveRel({axis: ss}) is called.
AG_step ==
  /\ AG
  /\ Len(steps) < MaxSteps
  /\ \E factor \in (-MaxFactor) .. MaxFactor :
       LET ss == factor * stepsizes
       IN steps' = Append(steps, [ss |-> ss,
                                  warned |-> Abs(ss) > TooBig,
                                  moveRel |-> TRUE])
  /\ UNCHANGED <<execv, wlocv, cachv, devv, pfv, stopv, callv>>
  /\ UNCHANGED <<ctl, termv, ncv, eta, detv, lkv, microscope, smPc, smCalls, smReturned,
                 stopCalls, actRaised, stepsizes, acq_progress_lock, timer>>

\* ------------------------------------------------------------ XT autofocus
\* xt_client.Focus.applyAutofocus and Scanner.applyAutoContrastBrightness:
\* the same code on two device functions.  moving_lock of the future stands
\* for f._autofocus_lock / f._auto_contrast_brighness_lock; devMoving says
\* the function is running on the device; log records <<"run", t>> and
\* <<"stop", t>> for the XT_RUN / XT_STOP commands the device accepted.
AF == ctl = "XTAutofocus"

\* CancellableFuture.cancel() of task t holds the future's condition while
\* the task_canceller runs: set_result / set_exception of t wait for it.
CancelInProgress(t) == stopPc # "idle" /\ stopFut = t

\* applyAutofocus / applyAutoContrastBrightness, lines 1329-1335 and 945-952.
AF_applyAutofocus ==
  /\ AF
  /\ submit("_applyAutofocus", EmptyDict)
  /\ Returned("applyAutofocus", "empty", "future")
  /\ UNCHANGED <<wtask, wpc, wfn, wlocv, cachv, devv, pfv, stopv, miscv>>

\* The worker starts the next future that was not cancelled while pending.
AF_start ==
  /\ AF
  /\ workq # <<>>
  /\ futures[Head(workq).fut].state = "PENDING"
  /\ WorkerTake("lock")
  /\ UNCHANGED <<wpos, wexc, done, log, cachv, devv, pfv, stopv, miscv, callv>>

\* The worker drops a future cancelled while pending.
AF_skip ==
  /\ AF
  /\ wtask = 0
  /\ workq # <<>>
  /\ futures[Head(workq).fut].state # "PENDING"
  /\ workq' = Tail(workq)
  /\ UNCHANGED <<futures, wtask, wpc, wfn, wlocv, cachv, devv, pfv, stopv, miscv, callv>>

\* _applyAutofocus, line 1343: with future._autofocus_lock.
AF_lock ==
  /\ AF
  /\ wpc = "lock"
  /\ futures[wtask].moving_lock = "free"
  /\ futures' = [futures EXCEPT ![wtask].moving_lock = "worker"]
  /\ wpc' = "check"
  /\ UNCHANGED <<workq, wtask, wfn, wlocv, cachv, devv, pfv, stopv, miscv, callv>>

\* _applyAutofocus without the test of _must_stop inside the lock.
AF_check_ignoresStop ==
  /\ AF
  /\ wpc = "check"
  /\ wpc' = "run"
  /\ UNCHANGED <<futures, wtask, wfn, whist, done, log>>
  /\ UNCHANGED <<workq, wpos, wexc, nAtStart, cachv, devv, pfv, stopv, miscv, callv>>

\* Lines 1344-1345: if _must_stop is set, CancelledError leaves the with
\* block and the function.
AF_check ==
  /\ AF
  /\ wpc = "check"
  /\ IF futures[wtask].must_stop
       THEN /\ ~CancelInProgress(wtask)
            /\ WorkerDone([futures EXCEPT ![wtask].moving_lock = "free"], "cancelled", whist)
       ELSE /\ wpc' = "run"
            /\ UNCHANGED <<futures, wtask, wfn, whist, done, log>>
  /\ UNCHANGED <<workq, wpos, wexc, nAtStart, cachv, devv, pfv, stopv, miscv, callv>>

\* Line 1346: set_autofocusing(channel, XT_RUN); then the 0.5 s sleep, still
\* inside the with block.
AF_run ==
  /\ AF
  /\ wpc = "run"
  /\ \E fault \in BOOLEAN :
       IF fault
         THEN /\ ~CancelInProgress(wtask)
              /\ WorkerDone([futures EXCEPT ![wtask].moving_lock = "free"], "fault",
                            [whist EXCEPT !.faulted = TRUE])
              /\ UNCHANGED devMoving
         ELSE /\ devMoving' = TRUE
              /\ log' = Append(log, <<"run", wtask>>)
              /\ whist' = [whist EXCEPT !.moved = TRUE]
              /\ wpc' = "sleep"
              /\ UNCHANGED <<futures, wtask, wfn, done>>
  /\ UNCHANGED <<workq, wpos, wexc, nAtStart, cachv, devPos, devTarget, inflight, pfv,
                 stopv, miscv, callv>>

\* End of the with block, line 1347.
AF_unlock ==
  /\ AF
  /\ wpc = "sleep"
  /\ futures' = [futures EXCEPT ![wtask].moving_lock = "free"]
  /\ wpc' = "poll"
  /\ UNCHANGED <<workq, wtask, wfn, wlocv, cachv, devv, pfv, stopv, miscv, callv>>

\* Line 1350: while is_autofocusing(channel); the call may raise.
AF_poll ==
  /\ AF
  /\ wpc = "poll"
  /\ \E fault \in BOOLEAN :
       IF fault
         THEN /\ ~CancelInProgress(wtask)
              /\ WorkerDone(futures, "fault", [whist EXCEPT !.faulted = TRUE])
         ELSE IF devMoving
           THEN /\ wpc' = "wait"
                /\ whist' = [whist EXCEPT !.observed = "moving"]
                /\ UNCHANGED <<futures, wtask, wfn, done, log>>
           ELSE /\ ~CancelInProgress(wtask)
                /\ WorkerDone(futures, "ok", [whist EXCEPT !.observed = "stopped"])
  /\ UNCHANGED <<workq, wpos, wexc, nAtStart, cachv, devv, pfv, stopv, miscv, callv>>

\* Lines 1351-1353: _must_stop.wait(0.1), CancelledError if it is set.
AF_wait ==
  /\ AF
  /\ wpc = "wait"
  /\ IF futures[wtask].must_stop
       THEN /\ ~CancelInProgress(wtask)
            /\ WorkerDone(futures, "cancelled", whist)
       ELSE /\ wpc' = "poll"
            /\ UNCHANGED <<futures, wtask, wfn, whist, done, log>>
  /\ UNCHANGED <<workq, wpos, wexc, nAtStart, cachv, devv, pfv, stopv, miscv, callv>>

\* The function ends on the device by itself.
AF_deviceFinishes ==
  /\ AF
  /\ devMoving
  /\ devMoving' = FALSE
  /\ UNCHANGED <<execv, wlocv, cachv, devPos, devTarget, inflight, pfv, stopv, miscv, callv>>

\* f.cancel() of task t.  A finished or cancelled future: nothing to do.  A
\* pending one is cancelled at once.  A running one: the task_canceller
\* _cancelAutoFocus starts, line 1361: _must_stop.set().
AF_cancel(t) ==
  /\ AF
  /\ stopPc = "idle"
  /\ nStops < MaxStops
  /\ nStops' = nStops + 1
  /\ IF futures[t].state = "PENDING"
       THEN /\ futures' = [futures EXCEPT ![t].state = "CANCELLED", ![t].result = "cancelled"]
            /\ UNCHANGED <<stopPc, stopFut>>
       ELSE IF futures[t].state = "RUNNING"
         THEN /\ futures' = [futures EXCEPT ![t].must_stop = TRUE]
              /\ stopPc' = "c_lock"
              /\ stopFut' = t
         ELSE UNCHANGED <<futures, stopPc, stopFut>>
  /\ UNCHANGED <<workq, wtask, wpc, wfn, wlocv, cachv, devv, pfv, nAbort, lastStop, miscv,
                 callv>>

\* _cancelAutoFocus, lines 1363-1370: with the lock, set_autofocusing(channel,
\* XT_STOP); True, or False when it raised OSError.  True: cancel() makes
\* the future CANCELLED.
AF_cancelStop ==
  /\ AF
  /\ stopPc = "c_lock"
  /\ futures[stopFut].moving_lock = "free"
  /\ \E fault \in BOOLEAN :
       IF fault
         THEN UNCHANGED <<futures, devMoving, log, done>>
         ELSE /\ devMoving' = FALSE
              /\ log' = Append(log, <<"stop", stopFut>>)
              /\ futures' = [futures EXCEPT ![stopFut].state = "CANCELLED",
                                             ![stopFut].result = "cancelled"]
              /\ done' = Outcome(stopFut, "cancelled", whist)
  /\ stopPc' = "idle"
  /\ UNCHANGED <<workq, wtask, wpc, wfn, wpos, wexc, whist, nAtStart, cachv, devPos,
                 devTarget, inflight, pfv, stopFut, nStops, nAbort, lastStop, miscv, callv>>

\* ------------------------------------------------------------ Phenom Detector
\* phenom.Detector: start_acquire / stop_acquire and the SEM acquisition
\* thread, with one axis of the scanner translation.  A thread is a record:
\* pc, its position; trans, its local variable; sum, the total of the
\* relative stage moves it made; compensated, its final move was made.
\* A device exception in stop_acquire or in the first part of start_acquire
\* is not modelled.
D == ctl = "Detector"

TransVals == {0, 1}

PixVals == {1, 2}

SemName == <<"sem1", "sem2", "sem3", "sem4">>

NewThread == [pc |-> "loop", trans |-> 0, sum |-> 0, compensated |-> FALSE]

ThreadsAlive == {th \in 1 .. Len(acqThreads) : acqThreads[th].pc # "dead"}

\* The user moves the scanner translation.
D_setTranslation ==
  /\ D
  /\ nSets < MaxSets
  /\ nSets' = nSets + 1
  /\ \E v \in TransVals : v # translation /\ translation' = v
  /\ UNCHANGED <<execv, wlocv, cachv, devv, pfv, stopv, callv>>
  /\ UNCHANGED <<ctl, termv, ncv, eta, guiv, lkv, acqThreads, _acquisition_must_stop, startPc,
                 generating, pixelSize, acq_progress_lock, timer>>

\* The pixel size follows the field of view (lines 363-364).
D_setPixelSize ==
  /\ D
  /\ nSets < MaxSets
  /\ nSets' = nSets + 1
  /\ \E v \in PixVals : v # pixelSize /\ pixelSize' = v
  /\ UNCHANGED <<execv, wlocv, cachv, devv, pfv, stopv, callv>>
  /\ UNCHANGED <<ctl, termv, ncv, eta, guiv, lkv, acqThreads, _acquisition_must_stop, startPc,
                 generating, translation, acq_progress_lock, timer>>

\* SEMDataFlow.start_generate -> start_acquire, lines 504-505: inside
\* _acquisition_lock, _wait_acquisition_stopped joins the thread only if
\* _acquisition_must_stop is set.
D_start_acquire ==
  /\ D
  /\ ~generating
  /\ startPc = "idle"
  /\ Len(acqThreads) < MaxThreads
  /\ generating' = TRUE
  /\ startPc' = IF _acquisition_must_stop THEN "join" ELSE "spawn"
  /\ UNCHANGED <<execv, wlocv, cachv, devv, pfv, stopv, callv>>
  /\ UNCHANGED <<ctl, termv, ncv, eta, guiv, lkv, acqThreads, _acquisition_must_stop,
                 translation, pixelSize, nSets, acq_progress_lock, timer>>

\* _wait_acquisition_stopped, lines 541-549: join(10) returns when the
\* thread has ended or after 10 s with the thread alive (logged only); the
\* event is then cleared.
D_join ==
  /\ D
  /\ startPc = "join"
  /\ _acquisition_must_stop' = FALSE
  /\ startPc' = "spawn"
  /\ UNCHANGED <<execv, wlocv, cachv, devv, pfv, stopv, callv>>
  /\ UNCHANGED <<ctl, termv, ncv, eta, guiv, lkv, acqThreads, generating, translation,
                 pixelSize, nSets, acq_progress_lock, timer>>

\* start_acquire, lines 511-515: a new thread is created and started.
D_spawn ==
  /\ D
  /\ startPc = "spawn"
  /\ acqThreads' = Append(acqThreads, NewThread)
  /\ startPc' = "idle"
  /\ UNCHANGED <<execv, wlocv, cachv, devv, pfv, stopv, callv>>
  /\ UNCHANGED <<ctl, termv, ncv, eta, guiv, lkv, _acquisition_must_stop, generating,
                 translation, pixelSize, nSets, acq_progress_lock, timer>>

\* SEMDataFlow.stop_generate -> stop_acquire, lines 523-533: abort, blank
\* the beam, set the event.  It does not wait for the thread.
D_stop_acquire ==
  /\ D
  /\ generating
  /\ startPc = "idle"
  /\ generating' = FALSE
  /\ _acquisition_must_stop' = TRUE
  /\ UNCHANGED <<execv, wlocv, cachv, devv, pfv, stopv, callv>>
  /\ UNCHANGED <<ctl, termv, ncv, eta, guiv, lkv, acqThreads, startPc, translation, pixelSize,
                 nSets, acq_progress_lock, timer>>

\* _acquire_thread, line 629: while not _acquisition_must_stop.is_set().
D_loop(th) ==
  /\ D
  /\ acqThreads[th].pc = "loop"
  /\ acqThreads' = [acqThreads EXCEPT ![th].pc = IF _acquisition_must_stop
                                                   THEN "finally" ELSE "trans"]
  /\ UNCHANGED <<execv, wlocv, cachv, devv, pfv, stopv, callv>>
  /\ UNCHANGED <<ctl, termv, ncv, eta, guiv, lkv, _acquisition_must_stop, startPc, generating,
                 translation, pixelSize, nSets, acq_progress_lock, timer>>

\* Lines 630-636: the difference of translation is turned into a relative
\* stage move of diff * pixelSize and its result waited for; when moveRel or
\* result() raises, trans keeps its old value and the thread goes to its
\* except / finally.
D_trans(th) ==
  /\ D
  /\ acqThreads[th].pc = "trans"
  /\ LET diff == translation - acqThreads[th].trans
     IN IF diff = 0
          THEN acqThreads' = [acqThreads EXCEPT ![th].pc = "image"]
          ELSE \E fails \in BOOLEAN :
                 acqThreads' =
                   IF fails
                     THEN [acqThreads EXCEPT ![th].pc = "finally"]
                     ELSE [acqThreads EXCEPT ![th].pc = "image",
                                             ![th].trans = translation,
                                             ![th].sum = @ + diff * pixelSize]
  /\ UNCHANGED <<execv, wlocv, cachv, devv, pfv, stopv, callv>>
  /\ UNCHANGED <<ctl, termv, ncv, eta, guiv, lkv, _acquisition_must_stop, startPc, generating,
                 translation, pixelSize, nSets, acq_progress_lock, timer>>

\* _acquire_image, line 556: with self.parent._acq_progress_lock.
D_imageBegin(th) ==
  /\ D
  /\ acqThreads[th].pc = "image"
  /\ acq_progress_lock = "free"
  /\ acq_progress_lock' = SemName[th]
  /\ acqThreads' = [acqThreads EXCEPT ![th].pc = "inimage"]
  /\ UNCHANGED <<execv, wlocv, cachv, devv, pfv, stopv, callv>>
  /\ UNCHANGED <<ctl, termv, ncv, eta, guiv, lkv, _acquisition_must_stop, startPc, generating,
                 translation, pixelSize, nSets, timer>>

\* _acquire_image returns and the image goes to the callback (line 638), or
\* an exception takes the thread to its except / finally.
D_imageEnd(th) ==
  /\ D
  /\ acqThreads[th].pc = "inimage"
  /\ acq_progress_lock' = "free"
  /\ \E fault \in BOOLEAN :
       acqThreads' = [acqThreads EXCEPT ![th].pc = IF fault THEN "finally" ELSE "loop"]
  /\ UNCHANGED <<execv, wlocv, cachv, devv, pfv, stopv, callv>>
  /\ UNCHANGED <<ctl, termv, ncv, eta, guiv, lkv, _acquisition_must_stop, startPc, generating,
                 translation, pixelSize, nSets, timer>>

\* finally, lines 641-644: the compensating move of -trans * pixelSize; when
\* it raises the thread ends without clearing the event.
D_finally(th) ==
  /\ D
  /\ acqThreads[th].pc = "finally"
  /\ \E fails \in BOOLEAN :
       acqThreads' =
         IF fails
           THEN [acqThreads EXCEPT ![th].pc = "dead"]
           ELSE [acqThreads EXCEPT ![th].pc = "clear",
                                   ![th].sum = @ - acqThreads[th].trans * pixelSize,
                                   ![th].compensated = TRUE]
  /\ UNCHANGED <<execv, wlocv, cachv, devv, pfv, stopv, callv>>
  /\ UNCHANGED <<ctl, termv, ncv, eta, guiv, lkv, _acquisition_must_stop, startPc, generating,
                 translation, pixelSize, nSets, acq_progress_lock, timer>>

\* finally, line 646: _acquisition_must_stop.clear(); the thread ends.
D_clear(th) ==
  /\ D
  /\ acqThreads[th].pc = "clear"
  /\ _acquisition_must_stop' = FALSE
  /\ acqThreads' = [acqThreads EXCEPT ![th].pc = "dead"]
  /\ UNCHANGED <<execv, wlocv, cachv, devv, pfv, stopv, callv>>
  /\ UNCHANGED <<ctl, termv, ncv, eta, guiv, lkv, startPc, generating, translation, pixelSize,
                 nSets, acq_progress_lock, timer>>

\* -------------------------------------------- the Phenom threads and the lock
\* Every use of parent._acq_progress_lock (a threading.Lock) in phenom.py, by
\* the thread that makes it.  A thread is "idle" (outside the with block),
\* "wait" (at the with statement), "hold" (inside the block) or, for the SEM
\* acquisition thread, "result" (in f.result() of a stage move, lines 633-635
\* and 642-644).
LK == ctl = "PhenomLocks"

\* A stage move, the two focus actuators, the chamber pressure, the SEM and
\* NavCam acquisition, Scanner._onRotation.
Threads == {"stage", "focus", "navfocus", "chamber", "sem", "navcam", "rotation"}

\* The thread reaches its with statement: _doMoveAbs / _doMoveRel (753, 769),
\* _checkQueue (868), _changePressure (1291), _acquire_image (556),
\* _acquire_thread_continuous (1055), _onRotation (330).  The stage worker
\* runs a move of a caller or the one the SEM thread waits for.
LK_request(t) ==
  /\ LK
  /\ lk[t] = "idle"
  /\ lk' = [lk EXCEPT ![t] = "wait"]
  /\ semTask' = IF t = "stage" /\ semTask = "queued" THEN "running" ELSE semTask
  /\ UNCHANGED <<execv, wlocv, cachv, devv, pfv, stopv, callv>>
  /\ UNCHANGED <<ctl, termv, ncv, eta, guiv, detv, acq_progress_lock, timer>>

\* The lock is free and the thread takes it.
LK_acquire(t) ==
  /\ LK
  /\ lk[t] = "wait"
  /\ acq_progress_lock = "free"
  /\ acq_progress_lock' = t
  /\ lk' = [lk EXCEPT ![t] = "hold"]
  /\ UNCHANGED <<execv, wlocv, cachv, devv, pfv, stopv, callv>>
  /\ UNCHANGED <<ctl, termv, ncv, eta, guiv, detv, semTask, timer>>

\* The SEM thread making its stage move, and waiting for its result, inside
\* the block of _acquire_image.
LK_release_movesInside(t) ==
  /\ LK
  /\ lk[t] = "hold"
  /\ IF t = "sem" /\ semTask # "done"
       THEN /\ semTask = "none"
            /\ semTask' = "queued"
            /\ UNCHANGED <<lk, acq_progress_lock>>
       ELSE /\ acq_progress_lock' = "free"
            /\ lk' = [lk EXCEPT ![t] = "idle"]
            /\ semTask' = IF t = "stage" /\ semTask = "running" THEN "done"
                          ELSE IF t = "sem" THEN "none" ELSE semTask
  /\ UNCHANGED <<execv, wlocv, cachv, devv, pfv, stopv, callv>>
  /\ UNCHANGED <<ctl, termv, ncv, eta, guiv, detv, timer>>

\* The end of the with block, by a return or by an exception: inside it the
\* thread only calls the device, sleeps and notifies (754-763, 770-778,
\* 869-884, 1292-1314, 557-619, 1056-1075, 331); it takes no lock and waits
\* for no task.  A stage move that ends resolves its future.
LK_release(t) ==
  /\ LK
  /\ lk[t] = "hold"
  /\ acq_progress_lock' = "free"
  /\ lk' = [lk EXCEPT ![t] = "idle"]
  /\ semTask' = IF t = "stage" /\ semTask = "running" THEN "done" ELSE semTask
  /\ UNCHANGED <<execv, wlocv, cachv, devv, pfv, stopv, callv>>
  /\ UNCHANGED <<ctl, termv, ncv, eta, guiv, detv, timer>>

\* _acquire_thread, lines 633-635 and 642-644: outside _acquire_image the
\* SEM thread submits a relative stage move and waits for its result.
LK_semMove ==
  /\ LK
  /\ lk["sem"] = "idle"
  /\ semTask = "none"
  /\ semTask' = "queued"
  /\ lk' = [lk EXCEPT !["sem"] = "result"]
  /\ UNCHANGED <<execv, wlocv, cachv, devv, pfv, stopv, callv>>
  /\ UNCHANGED <<ctl, termv, ncv, eta, guiv, detv, acq_progress_lock, timer>>

\* f.result() returns (or raises): the stage move has ended.
LK_semResult ==
  /\ LK
  /\ lk["sem"] = "result"
  /\ semTask = "done"
  /\ semTask' = "none"
  /\ lk' = [lk EXCEPT !["sem"] = "idle"]
  /\ UNCHANGED <<execv, wlocv, cachv, devv, pfv, stopv, callv>>
  /\ UNCHANGED <<ctl, termv, ncv, eta, guiv, detv, acq_progress_lock, timer>>

\* ------------------------------------------------------------------ spec
NoOutcome == [fut |-> 0, result |-> "none", moved |-> FALSE, readback |-> FALSE,
              timedOut |-> FALSE, faulted |-> FALSE, observed |-> "none",
              must_stop |-> FALSE]

InitCommon ==
  /\ futures = <<>>
  /\ workq = <<>>
  /\ wtask = 0
  /\ wpc = "idle"
  /\ wfn = NoFn
  /\ wpos = 0
  /\ wexc = "none"
  /\ whist = NoHist
  /\ done = NoOutcome
  /\ devMoving = FALSE
  /\ devTarget = 0
  /\ inflight = {}
  /\ _moves_queue = <<>>
  /\ wd = 0
  /\ batch = <<>>
  /\ acq_progress_lock = "free"
  /\ timer = "off"
  /\ writes = <<>>
  /\ reqs = <<>>
  /\ nAtStart = 0
  /\ log = <<>>
  /\ stopPc = "idle"
  /\ stopFut = 0
  /\ nStops = 0
  /\ nAbort = 0
  /\ lastStop = [raised |-> FALSE, refreshed |-> FALSE]
  /\ nCalls = 0
  /\ lastCall = [op |-> "none", kind |-> "none", outcome |-> "none"]
  /\ _executor = "live"
  /\ termPc = "idle"
  /\ nTerm = 0
  /\ lastTerm = [raised |-> FALSE, devcall |-> FALSE]
  /\ acquire_must_stop = FALSE
  /\ acquire_thread = "None"
  /\ eta = "none"
  /\ microscope = NoMicroscope
  /\ smPc = 0
  /\ smCalls = 0
  /\ smReturned = "none"
  /\ stopCalls = [i \in 1 .. MaxActs |-> 0]
  /\ actRaised = [i \in 1 .. MaxActs |-> FALSE]
  /\ stepsizes = 1
  /\ steps = <<>>
  /\ acqThreads = <<>>
  /\ _acquisition_must_stop = FALSE
  /\ startPc = "idle"
  /\ generating = FALSE
  /\ translation = 0
  /\ pixelSize = 1
  /\ nSets = 0
  /\ lk = [t \in Threads |-> "idle"]
  /\ semTask = "none"

\* PhenomFocus.__init__: the position VA is read from the device.
InitPF ==
  /\ ctl = "PhenomFocus"
  /\ devPos \in rng[1] .. rng[2]
  /\ position = devPos
  /\ _position = 0
  /\ InitCommon

NextPF ==
  \/ \E s \in Dict({"z"}, RelVals) : PF_moveRel(s)
  \/ \E p \in Dict({"z"}, AbsVals) : PF_moveAbs(p)
  \/ PF_start
  \/ PF_check
  \/ PF_getWD
  \/ PF_pop
  \/ PF_setWD
  \/ PF_updatePosition
  \/ PH_stop
  \/ PH_stopWait
  \/ PH_terminate
  \/ PH_termShutdown
  \/ PH_termJoin
  \/ PH_terminateAgain
  \/ PH_otherLocks
  \/ PH_otherUnlocks

\* xt_client.Stage.__init__: _updatePosition() reads the device.
InitXS ==
  /\ ctl = "XTStage"
  /\ devPos \in rng[1] .. rng[2]
  /\ position = devPos
  /\ _position = 0
  /\ InitCommon

NextXS ==
  \/ \E p \in Dict({"x"}, AbsVals) : XS_moveAbs(p)
  \/ \E s \in Dict({"x"}, RelVals) : XS_moveRel(s)
  \/ XS_start
  \/ XS_doMoveRel
  \/ XS_lock
  \/ XS_move
  \/ XS_getpos
  \/ XS_ismoving
  \/ XS_timeout
  \/ XS_finally
  \/ XS_resolve
  \/ XS_refreshPosition
  \/ XS_deviceSettles
  \/ XS_stop
  \/ XS_cancelAbort
  \/ XS_cancelLock
  \/ XS_cancelWait
  \/ XS_stopAbort
  \/ XS_stopUpdate

\* phenom.Stage.__init__, line 730: _position starts at 0, 0, wherever the
\* stage is.
InitPS ==
  /\ ctl = "PhenomStage"
  /\ devPos \in [PSAxes -> rng[1] .. rng[2]]
  /\ _position = [a \in PSAxes |-> 0]
  /\ position = _position
  /\ InitCommon

NextPS ==
  \/ \E p \in Dict(PSAxes, PSAbsVals) : PS_moveAbs(p)
  \/ \E s \in Dict(PSAxes, PSRelVals) : PS_moveRel(s)
  \/ PS_start
  \/ PS_move
  \/ PS_updatePosition
  \/ PH_stop
  \/ PH_stopWait
  \/ PH_terminate
  \/ PH_termShutdown
  \/ PH_termJoin
  \/ PH_terminateAgain
  \/ PH_otherLocks
  \/ PH_otherUnlocks

\* phenom.ChamberPressure.__init__: the position is read from the device.
InitCP ==
  /\ ctl = "ChamberPressure"
  /\ devPos \in Pressures
  /\ position = devPos
  /\ _position = 0
  /\ InitCommon

NextCP ==
  \/ \E p \in Dict({"pressure"}, Pressures \cup {0}) : CP_moveAbs(p)
  \/ \E s \in Dict({"pressure"}, {MaxDelta}) : CP_moveRel(s)
  \/ CP_start
  \/ CP_lock
  \/ CP_callBegin
  \/ CP_callEnd
  \/ CP_updatePosition
  \/ CP_updateTimeBegin
  \/ CP_updateTimeEnd
  \/ PH_stop
  \/ PH_stopWait
  \/ PH_terminate
  \/ PH_termShutdown
  \/ PH_termJoin
  \/ PH_terminateAgain
  \/ PH_otherLocks
  \/ PH_otherUnlocks

\* xt_client.Focus.__init__: _updatePosition() reads the device.
InitXF ==
  /\ ctl = "XTFocus"
  /\ devPos \in rng[1] .. rng[2]
  /\ position = devPos
  /\ _position = 0
  /\ InitCommon

NextXF ==
  \/ \E p \in Dict({"z"}, AbsVals) : XF_moveAbs(p)
  \/ \E s \in Dict({"z"}, RelVals) : XF_moveRel(s)
  \/ XF_start
  \/ XF_getFwd
  \/ XF_setFwd
  \/ XF_finally
  \/ XF_stop
  \/ XF_stopWait
  \/ XF_stopUpdate
  \/ XF_refreshPosition

\* NavCam.__init__: no acquisition thread, the event is clear.
InitNC ==
  /\ ctl = "NavCam"
  /\ devPos = 0
  /\ position = 0
  /\ _position = 0
  /\ InitCommon

NextNC ==
  \/ NC_start_flow
  \/ NC_loop
  \/ NC_frame
  \/ NC_notify
  \/ NC_req_stop_flow
  \/ NC_terminate

Init == InitPF \/ InitXS \/ InitPS \/ InitCP \/ InitXF \/ InitNC

Next == NextPF \/ NextXS \/ NextPS \/ NextCP \/ NextXF \/ NextNC

\* MainGUIData.__init__: microscope is None or a microscope with its actuators.
InitGUI ==
  /\ ctl = "MainGUIData"
  /\ futures = <<>>
  /\ workq = <<>>
  /\ wtask = 0
  /\ wpc = "idle"
  /\ wfn = NoFn
  /\ wpos = 0
  /\ wexc = "none"
  /\ whist = NoHist
  /\ done = NoOutcome
  /\ nAtStart = 0
  /\ log = <<>>
  /\ position = 0
  /\ _position = 0
  /\ devPos = 0
  /\ devMoving = FALSE
  /\ devTarget = 0
  /\ inflight = {}
  /\ _moves_queue = <<>>
  /\ wd = 0
  /\ batch = <<>>
  /\ writes = <<>>
  /\ reqs = <<>>
  /\ stopPc = "idle"
  /\ stopFut = 0
  /\ nStops = 0
  /\ nAbort = 0
  /\ lastStop = [raised |-> FALSE, refreshed |-> FALSE]
  /\ nCalls = 0
  /\ lastCall = [op |-> "none", kind |-> "none", outcome |-> "none"]
  /\ _executor = "live"
  /\ termPc = "idle"
  /\ nTerm = 0
  /\ lastTerm = [raised |-> FALSE, devcall |-> FALSE]
  /\ acquire_must_stop = FALSE
  /\ acquire_thread = "None"
  /\ eta = "none"
  /\ acq_progress_lock = "free"
  /\ timer = "off"
  /\ microscope \in {NoMicroscope} \cup {[present |-> TRUE, actuators |-> n] : n \in 0 .. MaxActs}
  /\ smPc = 0
  /\ smCalls = 0
  /\ smReturned = "none"
  /\ stopCalls = [i \in 1 .. MaxActs |-> 0]
  /\ actRaised = [i \in 1 .. MaxActs |-> FALSE]
  /\ stepsizes = 1
  /\ steps = <<>>
  /\ acqThreads = <<>>
  /\ _acquisition_must_stop = FALSE
  /\ startPc = "idle"
  /\ generating = FALSE
  /\ translation = 0
  /\ pixelSize = 1
  /\ nSets = 0
  /\ lk = [t \in Threads |-> "idle"]
  /\ semTask = "none"

NextGUI ==
  \/ GUI_stopMotion
  \/ GUI_actStop

SpecGUI == InitGUI /\ [][NextGUI]_vars

\* SEMPhenom.__init__, line 101: the lock is created free.
InitLK ==
  /\ ctl = "PhenomLocks"
  /\ futures = <<>>
  /\ workq = <<>>
  /\ wtask = 0
  /\ wpc = "idle"
  /\ wfn = NoFn
  /\ wpos = 0
  /\ wexc = "none"
  /\ whist = NoHist
  /\ done = NoOutcome
  /\ nAtStart = 0
  /\ log = <<>>
  /\ position = 0
  /\ _position = 0
  /\ devPos = 0
  /\ devMoving = FALSE
  /\ devTarget = 0
  /\ inflight = {}
  /\ _moves_queue = <<>>
  /\ wd = 0
  /\ batch = <<>>
  /\ writes = <<>>
  /\ reqs = <<>>
  /\ stopPc = "idle"
  /\ stopFut = 0
  /\ nStops = 0
  /\ nAbort = 0
  /\ lastStop = [raised |-> FALSE, refreshed |-> FALSE]
  /\ nCalls = 0
  /\ lastCall = [op |-> "none", kind |-> "none", outcome |-> "none"]
  /\ _executor = "live"
  /\ termPc = "idle"
  /\ nTerm = 0
  /\ lastTerm = [raised |-> FALSE, devcall |-> FALSE]
  /\ acquire_must_stop = FALSE
  /\ acquire_thread = "None"
  /\ eta = "none"
  /\ acq_progress_lock = "free"
  /\ timer = "off"
  /\ microscope = NoMicroscope
  /\ smPc = 0
  /\ smCalls = 0
  /\ smReturned = "none"
  /\ stopCalls = [i \in 1 .. MaxActs |-> 0]
  /\ actRaised = [i \in 1 .. MaxActs |-> FALSE]
  /\ stepsizes = 1
  /\ steps = <<>>
  /\ acqThreads = <<>>
  /\ _acquisition_must_stop = FALSE
  /\ startPc = "idle"
  /\ generating = FALSE
  /\ translation = 0
  /\ pixelSize = 1
  /\ nSets = 0
  /\ lk = [t \in Threads |-> "idle"]
  /\ semTask = "none"

NextLK ==
  \/ \E t \in Threads : LK_request(t)
  \/ \E t \in Threads : LK_acquire(t)
  \/ \E t \in Threads : LK_release(t)
  \/ LK_semMove
  \/ LK_semResult

SpecLK == InitLK /\ [][NextLK]_vars

\* A thread inside the block goes on to its end; a thread at the with
\* statement gets the lock if it is free again and again; the stage worker
\* starts the move the SEM thread waits for.
SpecLKFair ==
  /\ InitLK /\ [][NextLK]_vars
  /\ \A t \in Threads : WF_vars(LK_release(t))
  /\ \A t \in Threads : SF_vars(LK_acquire(t))
  /\ WF_vars(LK_request("stage") /\ semTask = "queued")
  /\ WF_vars(LK_semResult)

\* Detector.__init__, lines 459-462: no thread, the event not set; the
\* scanner translation is (0, 0).
InitD ==
  /\ ctl = "Detector"
  /\ futures = <<>>
  /\ workq = <<>>
  /\ wtask = 0
  /\ wpc = "idle"
  /\ wfn = NoFn
  /\ wpos = 0
  /\ wexc = "none"
  /\ whist = NoHist
  /\ done = NoOutcome
  /\ nAtStart = 0
  /\ log = <<>>
  /\ position = 0
  /\ _position = 0
  /\ devPos = 0
  /\ devMoving = FALSE
  /\ devTarget = 0
  /\ inflight = {}
  /\ _moves_queue = <<>>
  /\ wd = 0
  /\ batch = <<>>
  /\ writes = <<>>
  /\ reqs = <<>>
  /\ stopPc = "idle"
  /\ stopFut = 0
  /\ nStops = 0
  /\ nAbort = 0
  /\ lastStop = [raised |-> FALSE, refreshed |-> FALSE]
  /\ nCalls = 0
  /\ lastCall = [op |-> "none", kind |-> "none", outcome |-> "none"]
  /\ _executor = "live"
  /\ termPc = "idle"
  /\ nTerm = 0
  /\ lastTerm = [raised |-> FALSE, devcall |-> FALSE]
  /\ acquire_must_stop = FALSE
  /\ acquire_thread = "None"
  /\ eta = "none"
  /\ acq_progress_lock = "free"
  /\ timer = "off"
  /\ microscope = NoMicroscope
  /\ smPc = 0
  /\ smCalls = 0
  /\ smReturned = "none"
  /\ stopCalls = [i \in 1 .. MaxActs |-> 0]
  /\ actRaised = [i \in 1 .. MaxActs |-> FALSE]
  /\ stepsizes = 1
  /\ steps = <<>>
  /\ acqThreads = <<>>
  /\ _acquisition_must_stop = FALSE
  /\ startPc = "idle"
  /\ generating = FALSE
  /\ translation = 0
  /\ pixelSize \in PixVals
  /\ nSets = 0
  /\ lk = [t \in Threads |-> "idle"]
  /\ semTask = "none"

NextD ==
  \/ D_setTranslation
  \/ D_setPixelSize
  \/ D_start_acquire
  \/ D_join
  \/ D_spawn
  \/ D_stop_acquire
  \/ \E th \in 1 .. Len(acqThreads) : D_loop(th)
  \/ \E th \in 1 .. Len(acqThreads) : D_trans(th)
  \/ \E th \in 1 .. Len(acqThreads) : D_imageBegin(th)
  \/ \E th \in 1 .. Len(acqThreads) : D_imageEnd(th)
  \/ \E th \in 1 .. Len(acqThreads) : D_finally(th)
  \/ \E th \in 1 .. Len(acqThreads) : D_clear(th)

SpecD == InitD /\ [][NextD]_vars

\* Focus / Scanner after construction: no task, the function is not running.
InitAF ==
  /\ ctl = "XTAutofocus"
  /\ devPos = 0
  /\ position = 0
  /\ _position = 0
  /\ InitCommon

NextAF ==
  \/ AF_applyAutofocus
  \/ AF_start
  \/ AF_skip
  \/ AF_lock
  \/ AF_check
  \/ AF_run
  \/ AF_unlock
  \/ AF_poll
  \/ AF_wait
  \/ AF_deviceFinishes
  \/ \E t \in 1 .. Len(futures) : AF_cancel(t)
  \/ AF_cancelStop

SpecAF == InitAF /\ [][NextAF]_vars

\* ActuatorGUIData.__init__: there is a microscope with at least one
\* actuator; the step size starts at its default, the smallest value here.
InitAG ==
  /\ ctl = "ActuatorGUIData"
  /\ futures = <<>>
  /\ workq = <<>>
  /\ wtask = 0
  /\ wpc = "idle"
  /\ wfn = NoFn
  /\ wpos = 0
  /\ wexc = "none"
  /\ whist = NoHist
  /\ done = NoOutcome
  /\ nAtStart = 0
  /\ log = <<>>
  /\ position = 0
  /\ _position = 0
  /\ devPos = 0
  /\ devMoving = FALSE
  /\ devTarget = 0
  /\ inflight = {}
  /\ _moves_queue = <<>>
  /\ wd = 0
  /\ batch = <<>>
  /\ writes = <<>>
  /\ reqs = <<>>
  /\ stopPc = "idle"
  /\ stopFut = 0
  /\ nStops = 0
  /\ nAbort = 0
  /\ lastStop = [raised |-> FALSE, refreshed |-> FALSE]
  /\ nCalls = 0
  /\ lastCall = [op |-> "none", kind |-> "none", outcome |-> "none"]
  /\ _executor = "live"
  /\ termPc = "idle"
  /\ nTerm = 0
  /\ lastTerm = [raised |-> FALSE, devcall |-> FALSE]
  /\ acquire_must_stop = FALSE
  /\ acquire_thread = "None"
  /\ eta = "none"
  /\ acq_progress_lock = "free"
  /\ timer = "off"
  /\ microscope \in {[present |-> TRUE, actuators |-> n] : n \in 1 .. MaxActs}
  /\ smPc = 0
  /\ smCalls = 0
  /\ smReturned = "none"
  /\ stopCalls = [i \in 1 .. MaxActs |-> 0]
  /\ actRaised = [i \in 1 .. MaxActs |-> FALSE]
  /\ stepsizes = 1
  /\ steps = <<>>
  /\ acqThreads = <<>>
  /\ _acquisition_must_stop = FALSE
  /\ startPc = "idle"
  /\ generating = FALSE
  /\ translation = 0
  /\ pixelSize = 1
  /\ nSets = 0
  /\ lk = [t \in Threads |-> "idle"]
  /\ semTask = "none"

NextAG ==
  \/ AG_setStepsize
  \/ AG_step

SpecAG == InitAG /\ [][NextAG]_vars

Spec == Init /\ [][Next]_vars

SpecPF == InitPF /\ [][NextPF]_vars

SpecXS == InitXS /\ [][NextXS]_vars

SpecPS == InitPS /\ [][NextPS]_vars

SpecCP == InitCP /\ [][NextCP]_vars

SpecXF == InitXF /\ [][NextXF]_vars

\* The XT stage with its threads scheduled: the worker and the thread inside
\* stop() keep running, and the wall clock passes the timeout of _moveTo
\* (line 1166) however long the device reports that it is moving.
XS_worker ==
  \/ XS_start
  \/ XS_doMoveRel
  \/ XS_lock
  \/ XS_move
  \/ XS_getpos
  \/ XS_ismoving
  \/ XS_timeout
  \/ XS_finally
  \/ XS_resolve

XS_stopper ==
  \/ XS_cancelAbort
  \/ XS_cancelLock
  \/ XS_cancelWait
  \/ XS_stopAbort
  \/ XS_stopUpdate

SpecXSFair ==
  /\ InitXS
  /\ [][NextXS]_vars
  /\ WF_vars(XS_worker)
  /\ WF_vars(XS_stopper)
  /\ SF_vars(XS_ismoving /\ wpc' = "timeout")

\* The chamber-pressure actuator with its worker scheduled: the worker keeps
\* running, it gets the shared lock when the lock is free again and again,
\* and the other holders of the lock release it.  Nothing is assumed of the
\* TimeUpdater's thread.
CP_worker ==
  \/ CP_start
  \/ CP_callBegin
  \/ CP_callEnd
  \/ CP_updatePosition

SpecCPFair ==
  /\ InitCP
  /\ [][NextCP]_vars
  /\ WF_vars(CP_worker)
  /\ SF_vars(CP_lock)
  /\ WF_vars(PH_otherUnlocks)

\* The two stage actuators.
SpecStage == (InitPS \/ InitXS) /\ [][NextPS \/ NextXS]_vars

\* ------------------------------------------------------------ properties
RECURSIVE SumZ(_)
SumZ(moves) == IF moves = <<>> THEN 0 ELSE Head(moves).z + SumZ(Tail(moves))

AllFinished == \A i \in 1 .. Len(futures) : futures[i].state = "FINISHED"

NoFault == \A i \in 1 .. Len(futures) : futures[i].result # "fault"

\* Every accepted move was submitted before the worker started its first
\* task, and nothing was stopped.
AllBeforeDispatch ==
  /\ PF
  /\ Len(futures) >= 1
  /\ Len(reqs) = Len(futures)
  /\ nAtStart = Len(futures)
  /\ nStops = 0

\* C2: Phenom focus: when n >= 1 relative moves are submitted before the
\* worker starts any of them (and the device raises no fault), the device
\* never receives more than one working-distance write, and once the n
\* tasks are resolved it has received exactly one, of the working distance
\* read at dispatch plus d1 + ... + dn clipped to the range, and every task
\* has succeeded.
C2_RelMovesCoalesce ==
  (AllBeforeDispatch /\ \A i \in 1 .. Len(reqs) : reqs[i].typ = "moveRel")
    => /\ Len(writes) <= 1
       /\ (AllFinished /\ NoFault)
            => /\ Len(writes) = 1
               /\ writes[1].value = Clip(writes[1].read + SumZ(reqs), rng[1], rng[2])
               /\ \A i \in 1 .. Len(futures) : futures[i].result = "ok"

\* Two relative moves queued before dispatch were written as one command
\* that moved the focus.
C2_Witness ==
  /\ AllBeforeDispatch
  /\ Len(reqs) = 2
  /\ reqs[1].typ = "moveRel" /\ reqs[2].typ = "moveRel"
  /\ AllFinished /\ NoFault
  /\ Len(writes) = 1
  /\ Len(writes[1].batch) = 2
  /\ writes[1].value # writes[1].read

\* C3: Phenom focus: a relative move and then an absolute move to T, both
\* submitted before the worker dispatches either, give exactly one write,
\* of value T: the relative delta is discarded.
C3_AbsDiscardsRel ==
  (/\ AllBeforeDispatch
   /\ Len(reqs) = 2
   /\ reqs[1].typ = "moveRel" /\ reqs[2].typ = "moveAbs")
    => /\ Len(writes) <= 1
       /\ (AllFinished /\ NoFault)
            => /\ Len(writes) = 1
               /\ writes[1].value = reqs[2].z

\* A relative move then an absolute one were written as one command, whose
\* value is not what the relative move alone would have given.
C3_Witness ==
  /\ AllBeforeDispatch
  /\ Len(reqs) = 2
  /\ reqs[1].typ = "moveRel" /\ reqs[2].typ = "moveAbs"
  /\ AllFinished /\ NoFault
  /\ Len(writes) = 1
  /\ Len(writes[1].batch) = 2
  /\ reqs[1].z # 0
  /\ writes[1].value # Clip(writes[1].read + reqs[1].z, rng[1], rng[2])

\* C4: a move requested before a stop() and not yet dispatched is never
\* sent to the device: no working-distance write folds in a move whose task
\* was already cancelled.
C4_NoCancelledMoveSent ==
  \A k \in 1 .. Len(writes) :
    \A j \in 1 .. Len(writes[k].batch) : writes[k].batch[j].state # "CANCELLED"
\* C1: for every actuator, at most one call into the device handle is in
\* flight at any instant.
C1_OneDeviceCallInFlight == Cardinality(inflight) <= 1

\* C5: XT stage: when stop() found a move running on a device that never
\* reports settled, then once stop() has returned the task is Cancelled and
\* stop_stage_movement was invoked exactly once.
C5_StopAbortsOnce ==
  (XS /\ nStops > 0 /\ stopPc = "idle" /\ ~lastStop.raised /\ stopFut # 0 /\ devMoving)
    => /\ futures[stopFut].state = "CANCELLED"
       /\ nAbort = 1

\* C6: XT stage: a move that ran into the timeout with no cancellation
\* requested does not resolve as succeeded, and the cache was read back
\* after it.
C6_TimeoutFails ==
  (XS /\ done.timedOut /\ ~done.must_stop)
    => /\ done.result # "ok"
       /\ done.readback

\* C7: every variant: a moveAbs with a value outside the axis range raises
\* the range error, and the call changes nothing else: no future, no work
\* item, no queued move, no device call, the same cached position.
C7_OutOfRangeRejected ==
  [][(nCalls' # nCalls /\ lastCall'.op = "moveAbs" /\ lastCall'.kind = "outofrange")
       => /\ lastCall'.outcome = "ValueError"
          /\ UNCHANGED <<execv, wlocv, cachv, devv, pfv, stopv, miscv>>]_vars

\* An out-of-range moveAbs was rejected while another move was running.
C7_Witness ==
  /\ lastCall.op = "moveAbs"
  /\ lastCall.kind = "outofrange"
  /\ lastCall.outcome = "ValueError"
  /\ nCalls = 2
  /\ Len(futures) = 1
  /\ wtask = 1

\* C8: every variant: moveAbs({}) and moveRel({}) return a completed task
\* and raise nothing.
C8_EmptyRequestIsNoOp == lastCall.kind = "empty" => lastCall.outcome = "instant"

\* C9: every outcome: when a task that sent a move command is resolved, the
\* position was read back from the device after its last move command.
C9_ReadBackByResolution == done.moved => done.readback

\* C10: every variant: stop() refreshes the position from the device after
\* cancelling, and never raises.
C10_StopRefreshesNeverRaises ==
  (nStops > 0 /\ stopPc = "idle") => (~lastStop.raised /\ lastStop.refreshed)
\* C11: whenever the move or mode-change command raised a fault (and no
\* cancellation was requested), the task resolves as failed with that fault.
C11_CommandFaultFails ==
  (done.faulted /\ ~done.must_stop) => done.result = "fault"
\* C12: every call into the device handle is made by the actuator's worker:
\* a step that invokes stop_stage_movement is a step of the worker, which
\* calls it from _moveTo after the timeout.
C12_OnlyWorkerCallsDevice ==
  [][nAbort' = nAbort + 1 => (wpc = "timeout" /\ wpc' = "finally")]_vars
Stage == ctl \in {"PhenomStage", "XTStage"}

\* The positions in log of the move commands sent for task t.
CmdsOf(t) == {i \in 1 .. Len(log) : log[i] = <<"cmd", t>>}

C14_NoRangeErrorOnWorker ==
  \A t \in 1 .. Len(futures) : futures[t].result # "ValueError"

\* C15: once the executor of a controller has been shut down, every later
\* moveAbs / moveRel call is rejected synchronously and no device command is
\* ever issued for it: no working-distance write folds in a move whose
\* submission was refused.
C15_NoCommandForRejected ==
  \A k \in 1 .. Len(writes) :
    \A j \in 1 .. Len(writes[k].batch) : writes[k].batch[j].state # "REJECTED"

\* C16: terminate is idempotent: a second terminate() call raises nothing
\* and issues no device call.
C16_TerminateIdempotent == nTerm >= 2 => (~lastTerm.raised /\ ~lastTerm.devcall)

\* C17: the workers of different actuators of one microscope never block one
\* another: a worker that is about to take the shared lock never finds it
\* held by another actuator's worker.
C17_WorkersNeverBlock ==
  ~(Phenom /\ wtask # 0 /\ wpc \in {"lock", "move"} /\ acq_progress_lock = "other")

\* C18: every thread that touches the device goes through the lock of the
\* shared connection: a thread inside a device call holds that lock.
C18_DeviceCallsUnderLock == \A t \in inflight : acq_progress_lock = t

\* The worker makes no further device call for the move stop() found
\* running: it runs another task or none, or only has the result left to set.
MoveFinished == wtask # stopFut \/ wpc = "resolve"

C20_XTFocusCoalesces ==
  ( /\ XF
    /\ Len(futures) >= 1
    /\ Len(reqs) = Len(futures)
    /\ nAtStart = Len(futures)
    /\ nStops = 0
    /\ \A i \in 1 .. Len(reqs) : reqs[i].typ = "moveRel" )
    => Len(writes) <= 1

\* C21: after a device call of a task has failed (the connection is lost),
\* the controller is degraded: no later moveAbs / moveRel call submits a task.
C21_DegradedAfterFault ==
  [][(\E t \in 1 .. Len(futures) : futures[t].result = "fault")
       => Len(futures') = Len(futures)]_vars

\* C22: a task whose cancellation flag is set when the worker starts
\* executing it resolves as cancelled without any device call: when a task
\* was cancelled before its move command was sent, the worker did not read
\* the position for it either.
C22_NoDeviceCallWhenCancelledAtStart ==
  (XS /\ done.result = "cancelled" /\ ~done.moved) => ~done.readback

\* C23: a running stage move (its move command was accepted by the device)
\* that is cancelled is declared cancelled only once the device was observed
\* as not moving or the bounded wait expired:
\* never while the last observation is missing or says "moving" and the
\* timeout has not passed.
C23_CancelledAfterSettled ==
  (XS /\ done.result = "cancelled" /\ done.moved /\ ~done.faulted)
    => (done.observed = "stopped" \/ done.timedOut)

\* A task resolves as succeeded in this step.
Succeeds ==
  \E t \in 1 .. Len(futures) :
    /\ futures[t].state = "RUNNING"
    /\ futures'[t].state = "FINISHED"
    /\ futures'[t].result = "ok"

\* C24: when a move of the Phenom stage or focus resolves as succeeded, the
\* cached position is the position the device holds (its read-back, clamped
\* where the device clamped), not the requested target.
C24_CacheIsReadBack ==
  [][(ctl \in {"PhenomStage", "PhenomFocus"} /\ Succeeds) => position' = devPos']_vars

\* C25: every working-distance value a focus controller writes to the device
\* lies within the axis range.
C25_WritesWithinRange == \A k \in 1 .. Len(writes) : InRange(writes[k].value)

\* C26: when a focus task starts and finds the pending-move queue empty, it
\* completes successfully as a no-op: the worker's step resolves the task at
\* once, without a device read or write and without taking the shared lock.
C26_EmptyQueueIsNoOp ==
  [][(PF /\ wpc = "check" /\ wpc' # "check" /\ _moves_queue = <<>>)
       => /\ wpc' = "idle"
          /\ futures'[wtask].state = "FINISHED"
          /\ futures'[wtask].result = "ok"
          /\ UNCHANGED <<devv, writes, position, acq_progress_lock>>]_vars

\* The second of two requests was consumed by the dispatch of the first; its
\* own task then succeeded without touching the device.
C26_Witness ==
  /\ PF
  /\ Len(futures) = 2
  /\ done.fut = 2
  /\ done.result = "ok"
  /\ ~done.moved /\ ~done.readback
  /\ Len(writes) = 1
  /\ Len(writes[1].batch) = 2

\* C27: whatever the remaining-time updater does (it answers, it raises on
\* every tick, its query never returns), a chamber-pressure task that the
\* worker started reaches a terminal state.
C27_TaskResolvesWhateverTheUpdater ==
  \A t \in 1 .. MaxCalls :
    (CP /\ wtask = t)
      ~> (wtask # t /\ Len(futures) >= t /\ futures[t].state \in {"FINISHED", "CANCELLED"})

\* A pressure change succeeded although the last remaining-time query raised.
C27_Witness ==
  /\ CP
  /\ eta = "fault"
  /\ done.fut # 0
  /\ done.result = "ok"
  /\ done.moved
  /\ wtask = 0

\* C28: once req_stop_flow() has returned (the stop event is set and the
\* abort was sent), the acquisition thread never calls the data callback.
C28_NoNotifyAfterStop ==
  [][(NC /\ acquire_thread = "notify" /\ acquire_thread' = "loop") => ~acquire_must_stop]_vars

\* C29: whenever a running XT stage move ends as cancelled, its canceller
\* returned True: a task never ends as cancelled while stop() waits for its
\* result because _cancelCurrentMove returned False.
C29_CancelledOnlyIfCancellerTrue ==
  (XS /\ stopPc = "c_wait") => futures[stopFut].result # "cancelled"

\* C30: when stopMotion() has returned, every actuator of the microscope
\* received exactly one stop() call from it, whichever of these calls
\* raised; stopMotion never raises; with no microscope no stop() is called.
C30_StopMotionStopsAll ==
  GUI =>
    /\ smReturned # "raised"
    /\ smReturned = "returned" =>
         \A i \in 1 .. MaxActs :
           stopCalls[i] = IF microscope.present /\ i <= microscope.actuators THEN 1 ELSE 0

\* The stop() of the first actuator raised and the others were still stopped.
C30_Witness ==
  /\ GUI
  /\ microscope.actuators = MaxActs
  /\ smReturned = "returned"
  /\ actRaised[1]
  /\ \A i \in 1 .. MaxActs : stopCalls[i] = 1

\* C31: a step() whose distance |factor * stepsize| exceeds 10 mm issues no
\* moveRel to the actuator.
C31_NoMoveWhenTooBig ==
  \A k \in 1 .. Len(steps) : Abs(steps[k].ss) > TooBig => ~steps[k].moveRel

\* C32: once a chamber-pressure task has resolved, with a result or with an
\* exception raised inside the change, the TimeUpdater started for it is
\* stopped.
C32_UpdaterStoppedAfterTask ==
  (CP /\ done.fut # 0 /\ wtask = 0) => timer = "off"

\* C33: a Phenom stage moveAbs that names a subset of the axes leaves the
\* device position of every axis it does not name unchanged.
C33_UnnamedAxesStay ==
  [][(PS /\ wpc = "move" /\ wpc' = "upd" /\ wfn.fn = "_doMoveAbs")
       => \A a \in PSAxes \ DOMAIN wfn.arg : devPos'[a] = devPos[a]]_vars

\* Position in the log of the STOP command accepted for task t, 0 if none.
StopAt(t) ==
  IF \E i \in 1 .. Len(log) : log[i] = <<"stop", t>>
    THEN CHOOSE i \in 1 .. Len(log) : log[i] = <<"stop", t>>
    ELSE 0

C35_RelAfterAbsAdds ==
  (/\ AllBeforeDispatch
   /\ Len(reqs) = 2
   /\ reqs[1].typ = "moveAbs" /\ reqs[2].typ = "moveRel")
    => /\ Len(writes) <= 1
       /\ (AllFinished /\ NoFault)
            => /\ Len(writes) = 1
               /\ writes[1].value = Clip(reqs[1].z + reqs[2].z, rng[1], rng[2])

\* An absolute move then a relative one were written as one command, whose
\* value is not the absolute target.
C35_Witness ==
  /\ AllBeforeDispatch
  /\ Len(reqs) = 2
  /\ reqs[1].typ = "moveAbs" /\ reqs[2].typ = "moveRel"
  /\ AllFinished /\ NoFault
  /\ Len(writes) = 1
  /\ Len(writes[1].batch) = 2
  /\ writes[1].value # reqs[1].z

\* The writes whose batch holds the move of task t, as <<write, position>>.
WrittenIn(t) ==
  {<<k, j>> \in (1 .. Len(writes)) \X (1 .. MaxCalls) :
     j <= Len(writes[k].batch) /\ writes[k].batch[j].task = t}

\* C36: Phenom focus: the move of every accepted request is folded into at
\* most one device write, and when its task has succeeded a completed write
\* holds it.
C36_EveryMoveWrittenOnce ==
  PF => \A t \in 1 .. Len(futures) :
          /\ Cardinality(WrittenIn(t)) <= 1
          /\ (futures[t].state = "FINISHED" /\ futures[t].result = "ok")
               => WrittenIn(t) # {}

\* C38: at most one Phenom SEM acquisition thread is alive at any time.
C38_OneAcquisitionThread == D => Cardinality(ThreadsAlive) <= 1

\* C39: when a SEM acquisition thread has ended after its compensating move,
\* the relative stage moves it made add up to zero.
C39_MovesSumToZero ==
  D => \A th \in 1 .. Len(acqThreads) :
         (acqThreads[th].pc = "dead" /\ acqThreads[th].compensated)
           => acqThreads[th].sum = 0

\* C37: the thread that holds the shared acquisition lock is inside its with
\* block and is the only one there (it never waits for the lock it holds),
\* and every thread that waits for the lock gets it: no holder needs, to
\* release it, a lock or a task result that a waiter holds.
C37_NoLockDeadlock ==
  /\ [](LK => \A t \in Threads : (lk[t] = "hold") <=> (acq_progress_lock = t))
  /\ \A t \in Threads : (LK /\ lk[t] = "wait") ~> (lk[t] = "hold")
  /\ (LK /\ lk["sem"] = "result") ~> (lk["sem"] = "idle")

\* The stage worker waits for the lock, held by the NavCam thread, to make
\* the move whose result the SEM acquisition thread waits for.
C37_Witness ==
  /\ LK
  /\ lk["sem"] = "result"
  /\ semTask = "running"
  /\ lk["stage"] = "wait"
  /\ acq_progress_lock = "navcam"
  /\ lk["chamber"] = "wait"
=============================================================================
